---- MODULE Spec2Model ----
(***************************************************************************)
(* Resumable, concurrent evaluation orchestration and result store of      *)
(* evaluate_py (main.py, result_converter.py, result_utils.py,             *)
(* statistics.py, evaluator.py, model_api.py).                             *)
(*                                                                         *)
(* Spec        the run: resume load, two-tier pools, buffering, flushes,   *)
(*             final statistics rewrite, interrupts and write faults.      *)
(* SpecResume  the resume load and the dispatch of every combination,      *)
(*             over every stored record sequence up to MaxStored; the      *)
(*             result store's and the aggregator's functions are applied   *)
(*             to these sequences.                                         *)
(* SpecStats   the same steps over stored sequences of every record shape  *)
(*             the aggregator distinguishes.                               *)
(* SpecTasks   a whole JSON run without interrupt and I/O fault in which    *)
(*             every task ends in one of the ways evaluate_single_item     *)
(*             returns.                                                    *)
(* SpecCall    the evaluation of one multi-round item step by step: the    *)
(*             messages of every round and the retry loop of every call.   *)
(* SpecIsolation  the run of SpecTasks, every task ending in one of the    *)
(*             ways the collect loop tells apart, under weak fairness.     *)
(* SpecInput   the run of SpecTasks over items of every question type and  *)
(*             every shape of options.                                     *)
(* SpecExtract a run in which every model response is drawn from short     *)
(*             token sequences and the answer extraction chain is applied  *)
(*             to it stage by stage.                                       *)
(* SpecKilled  a JSONL run resumed over artifacts whose last line is       *)
(*             partial.                                                    *)
(* SpecScenario  a JSON run over one single-round item from the model's    *)
(*             response to the statistics of the artifact.                 *)
(* SpecBatch   the run of Spec with one or two workers and every batch     *)
(*             size from 0.                                                *)
(* SpecHistory the rounds of the multi-round item over short and long      *)
(*             responses, with the conversation history they leave.        *)
(* SpecWindow  the extraction of responses without marker or object of     *)
(*             every length up to MaxChars.                                *)
(* SpecRounds  a JSON run over the multi-round item from the responses of  *)
(*             its rounds to the record in the artifact.                   *)
(***************************************************************************)
EXTENDS Integers, Sequences, FiniteSets, TLC

(* ------------------------------------------------------------------ *)
(* Bounds of the model                                                  *)
(* ------------------------------------------------------------------ *)
MaxWorkers == 4      \* EVAL_WORKERS ranges over 1..MaxWorkers
MaxBatch   == 2      \* EVAL_BATCH_SIZE ranges over 1..MaxBatch (SpecBatch: from 0)
MaxItems   == 2      \* length of the loaded input list
MaxStored  == 2      \* records of an existing artifact (SpecResume)
MaxFaults  == 1      \* injected write faults per run
MaxRaceItems == 1    \* input size up to which a second interrupt is explored
MaxRaceWorkers == 1  \* worker budget up to which a second interrupt is explored
MaxCombos  == 4      \* numbers of combinations of the fair-share arithmetic
MaxTurns   == 3      \* rounds of a multi-round conversation
MaxRetries == 3      \* largest configured max_retries
MaxDelay   == 2      \* largest configured retry_delay, in seconds
MaxBoxText == 5      \* tokens of a response drawn over the marker alphabet
MaxParts   == 3      \* pieces of a response put together from ResponseParts
MaxChars   == 402    \* characters of a response without marker or object

(* ------------------------------------------------------------------ *)
(* Values                                                               *)
(* ------------------------------------------------------------------ *)
NoneV   == "<None>"          \* Python None
Missing == "<missing>"       \* key absent from a per-round dict
Rounds  == <<"round1", "round2">>
RoundSet == {Rounds[i] : i \in 1..Len(Rounds)}

enabled_models == <<"m1", "m2">>
profiles       == <<"p1">>
Ids            == {"q1", "q2"}

Range(s) == {s[i] : i \in 1..Len(s)}

\* str.strip() on the strings of the model: "" , " " (whitespace only), "A"
Strip(s) == IF s = " " THEN "" ELSE s

SingleAns(s) == [dict |-> FALSE, s |-> s, r |-> [x \in RoundSet |-> Missing]]
DictAns(a, b) == [dict |-> TRUE, s |-> "",
                  r |-> [x \in RoundSet |-> IF x = Rounds[1] THEN a ELSE b]]
SingleGt(b) == [dict |-> FALSE, b |-> b, r |-> [x \in RoundSet |-> Missing]]
DictGt(a, b) == [dict |-> TRUE, b |-> FALSE,
                 r |-> [x \in RoundSet |-> IF x = Rounds[1] THEN a ELSE b]]

\* keys of a per-round dict, in round order
DictKeys(d) == {x \in RoundSet : d.r[x] # Missing}

(* ------------------------------------------------------------------ *)
(* result_utils.py                                                      *)
(* ------------------------------------------------------------------ *)
\* _check_answer_empty: `not round_answer or (str and not strip())`
RoundAnswerBlank(v) == v = NoneV \/ v = "" \/ Strip(v) = ""

CheckAnswerEmpty(answer_value) ==
    IF answer_value.dict
    THEN \/ DictKeys(answer_value) = {}
         \/ \E x \in DictKeys(answer_value) : RoundAnswerBlank(answer_value.r[x])
    ELSE \/ answer_value.s = NoneV
         \/ Strip(answer_value.s) = ""

\* is_answer_empty(item, model_key, model_name); a record holds the one model
\* entry "model"; model_key is "model" or NoneV, model_name is always given.
IsAnswerEmpty(item, model_key, model_name) ==
    IF model_key = "model" /\ item.model_name = model_name
       /\ ~CheckAnswerEmpty(item.answer)
    THEN FALSE
    ELSE IF model_key # "model" /\ item.model_name = model_name
         THEN CheckAnswerEmpty(item.answer)
         ELSE TRUE

(* ------------------------------------------------------------------ *)
(* statistics.py: calculate_output_statistics                           *)
(* ------------------------------------------------------------------ *)
ModelEntryIsValid(item) ==
    \/ item.response_time > 0
    \/ IF item.answer.dict THEN DictKeys(item.answer) # {}
                           ELSE item.answer.s \notin {"", NoneV}
    \/ item.process # ""

\* _find_model_entry: TRUE when the "model" entry is returned for model_name
FindModelEntry(item, model_name) ==
    ModelEntryIsValid(item) /\ item.model_name = model_name

\* "at least one enabled model has a non-empty answer"
HasValidAnswer(item, models) ==
    \E i \in 1..Len(models) :
        /\ FindModelEntry(item, models[i])
        /\ ~IsAnswerEmpty(item, "model", models[i])

IndexOfId(acc, id) == {j \in 1..Len(acc) : acc[j].item.question_id = id}

\* a dedup that keeps the first stored record of every id
RECURSIVE FirstWinsLoop(_, _, _, _)
FirstWinsLoop(rs, i, acc, models) ==
    IF i > Len(rs) THEN acc
    ELSE IF rs[i].question_id = "" \/ IndexOfId(acc, rs[i].question_id) # {}
         THEN FirstWinsLoop(rs, i + 1, acc, models)
         ELSE FirstWinsLoop(rs, i + 1,
                            Append(acc, [item |-> rs[i],
                                         valid |-> HasValidAnswer(rs[i], models)]),
                            models)

RECURSIVE DedupLoop(_, _, _, _)
DedupLoop(rs, i, acc, models) ==
    IF i > Len(rs) THEN acc
    ELSE LET item == rs[i]
             id   == item.question_id
             pos  == IndexOfId(acc, id)
             hv   == HasValidAnswer(item, models)
         IN IF id = "" THEN DedupLoop(rs, i + 1, acc, models)
            ELSE IF pos = {}
            THEN DedupLoop(rs, i + 1, Append(acc, [item |-> item, valid |-> hv]), models)
            ELSE LET j == CHOOSE j \in pos : TRUE
                 IN IF acc[j].valid \/ ~hv
                    THEN DedupLoop(rs, i + 1, acc, models)
                    ELSE DedupLoop(rs, i + 1,
                                   [acc EXCEPT ![j] = [item |-> item, valid |-> TRUE]],
                                   models)

\* a scoring set that keeps every stored record
KeepAllResults(results_list, models) == results_list

\* _deduplicate_results
DeduplicateResults(results_list, models) ==
    LET acc == DedupLoop(results_list, 1, <<>>, models)
    IN [j \in 1..Len(acc) |-> acc[j].item]

GtTrue(v) == v = "T"

\* a count that leaves the emptiness tests out
CountItemAll(item, model_name, by_rounds) ==
    IF item.match_gt.dict
    THEN IF by_rounds
         THEN <<Cardinality(DictKeys(item.match_gt)),
                Cardinality({x \in DictKeys(item.match_gt) : GtTrue(item.match_gt.r[x])})>>
         ELSE <<1, IF \A x \in DictKeys(item.match_gt) : GtTrue(item.match_gt.r[x])
                   THEN 1 ELSE 0>>
    ELSE <<1, IF item.match_gt.b THEN 1 ELSE 0>>

\* a whole-item count in which one true round verdict makes the item correct
CountItemAny(item, model_name, by_rounds) ==
    IF item.match_gt.dict /\ ~by_rounds
    THEN <<1, IF \E x \in DictKeys(item.match_gt) : GtTrue(item.match_gt.r[x])
              THEN 1 ELSE 0>>
    ELSE CountItemAll(item, model_name, by_rounds)

\* _count_item: <<count, correct>>
CountItem(item, model_name, by_rounds) ==
    IF item.match_gt.dict
    THEN IF by_rounds
         THEN IF ~item.answer.dict THEN <<0, 0>>
              ELSE LET answered == {x \in DictKeys(item.match_gt) :
                                       LET ra == IF item.answer.r[x] = Missing THEN ""
                                                 ELSE item.answer.r[x]
                                       IN ~(ra = NoneV \/ Strip(ra) = "")}
                   IN <<Cardinality(answered),
                        Cardinality({x \in answered : GtTrue(item.match_gt.r[x])})>>
         ELSE IF (IF item.answer.dict
                  THEN ~\E x \in DictKeys(item.answer) :
                           item.answer.r[x] # NoneV /\ Strip(item.answer.r[x]) # ""
                  ELSE IsAnswerEmpty(item, "model", model_name))
              THEN <<0, 0>>
              ELSE <<1, IF DictKeys(item.match_gt) # {}
                           /\ \A x \in DictKeys(item.match_gt) : GtTrue(item.match_gt.r[x])
                        THEN 1 ELSE 0>>
    ELSE IF IsAnswerEmpty(item, "model", model_name) THEN <<0, 0>>
         ELSE <<1, IF item.match_gt.b THEN 1 ELSE 0>>

Pair0 == <<0, 0>>
PairAdd(a, b) == <<a[1] + b[1], a[2] + b[2]>>
\* statistics.py 519: correct / total as a fraction, 0.0 when nothing is counted
Accuracy(pair) == IF pair[1] > 0 THEN [num |-> pair[2], den |-> pair[1]]
                  ELSE [num |-> 0, den |-> 1]

\* sum of _count_item over the (item, model) pairs of `items` that have an entry
RECURSIVE SumItems(_, _, _, _)
SumItems(its, i, models, by_rounds) ==
    IF i > Len(its) THEN Pair0
    ELSE LET item == its[i]
             RECURSIVE OverModels(_)
             OverModels(m) ==
                 IF m > Len(models) THEN Pair0
                 ELSE PairAdd(IF FindModelEntry(item, models[m])
                              THEN CountItem(item, models[m], by_rounds)
                              ELSE Pair0,
                              OverModels(m + 1))
         IN PairAdd(OverModels(1), SumItems(its, i + 1, models, by_rounds))

\* whole-item overall total (statistics.py 427-515): one unit per question id
\* whose chosen record has a non-empty answer for some enabled model
WholeItemTotal(results, models) ==
    LET chosen == DeduplicateResults(results, models)
        unit(item) ==
            LET ms == {m \in 1..Len(models) :
                          /\ FindModelEntry(item, models[m])
                          /\ ~IsAnswerEmpty(item, "model", models[m])}
                ok(m) == IF item.match_gt.dict
                         THEN /\ DictKeys(item.match_gt) # {}
                              /\ \A x \in DictKeys(item.match_gt) :
                                     GtTrue(item.match_gt.r[x])
                         ELSE item.match_gt.b
            IN IF ms = {} THEN Pair0
               ELSE <<1, IF \E m \in ms : ok(m) THEN 1 ELSE 0>>
        RECURSIVE Sum(_)
        Sum(i) == IF i > Len(chosen) THEN Pair0
                  ELSE PairAdd(unit(chosen[i]), Sum(i + 1))
    IN Sum(1)

\* by_category holds the one classification field "scenario"
CalculateOutputStatistics(results, models, by_rounds) ==
    LET dedup == DeduplicateResults(results, models)
        profs == {dedup[i].profile : i \in 1..Len(dedup)}
        cats  == {dedup[i].scenario : i \in 1..Len(dedup)} \ {""}
    IN [total |-> IF by_rounds THEN SumItems(dedup, 1, models, TRUE)
                  ELSE WholeItemTotal(results, models),
        by_model |-> [m \in Range(models) |->
                         SumItems(dedup, 1, <<m>>, by_rounds)],
        by_profile |-> [p \in profs |->
                         SumItems(SelectSeq(dedup, LAMBDA it : it.profile = p),
                                  1, models, by_rounds)],
        by_category |-> [c \in cats |->
                         SumItems(SelectSeq(dedup, LAMBDA it : it.scenario = c),
                                  1, models, by_rounds)]]

(* ------------------------------------------------------------------ *)
(* main.py: input dedup, resume dedup, fair-share computation           *)
(* ------------------------------------------------------------------ *)
\* main.py 52-71: keep the first item of every question_id
RECURSIVE DedupItems(_, _, _)
DedupItems(raw, i, acc) ==
    IF i > Len(raw) THEN acc
    ELSE IF raw[i] \in Range(acc) THEN DedupItems(raw, i + 1, acc)
         ELSE DedupItems(raw, i + 1, Append(acc, raw[i]))

\* main.py 275-316 (JSONL) and 352-393 (JSON): first-non-empty dedup of a load
RECURSIVE ResumeLoop(_, _, _, _)
ResumeLoop(all_items, i, st, model_name) ==
    IF i > Len(all_items) THEN st
    ELSE LET item == all_items[i]
             id   == item.question_id
             pos  == IndexOfId(st.acc, id)
             is_empty == IsAnswerEmpty(item, NoneV, model_name)
         IN IF id = "" THEN ResumeLoop(all_items, i + 1, st, model_name)
            ELSE IF pos # {} /\ st.acc[CHOOSE j \in pos : TRUE].valid
            THEN ResumeLoop(all_items, i + 1,
                            [st EXCEPT !.removed = @ + 1], model_name)
            ELSE IF pos = {}
            THEN ResumeLoop(all_items, i + 1,
                    [st EXCEPT !.acc = Append(@, [item |-> item, valid |-> ~is_empty]),
                               !.completed = IF is_empty THEN @ ELSE @ \cup {id},
                               !.empty = IF is_empty THEN @ + 1 ELSE @],
                    model_name)
            ELSE LET j == CHOOSE j \in pos : TRUE
                 IN ResumeLoop(all_items, i + 1,
                    [st EXCEPT !.removed = @ + 1,
                               !.acc = IF is_empty THEN @
                                       ELSE [@ EXCEPT ![j] = [item |-> item, valid |-> TRUE]],
                               !.completed = IF is_empty THEN @ ELSE @ \cup {id},
                               !.empty = IF is_empty THEN @ ELSE @ - 1],
                    model_name)

ResumeDedup(all_items, model_name) ==
    LET st == ResumeLoop(all_items, 1,
                         [acc |-> <<>>, completed |-> {}, removed |-> 0, empty |-> 0],
                         model_name)
    IN [cleaned_items |-> [j \in 1..Len(st.acc) |-> st.acc[j].item],
        completed_ids |-> st.completed,
        removed_duplicate_count |-> st.removed,
        empty_answer_count |-> st.empty]

Max(a, b) == IF a >= b THEN a ELSE b

\* main.py 482-502
combos == [i \in 1..(Len(enabled_models) * Len(profiles)) |->
              [m |-> enabled_models[((i - 1) \div Len(profiles)) + 1],
               p |-> profiles[((i - 1) % Len(profiles)) + 1]]]
num_combos == Len(combos)
K == 1..num_combos
PerComboWorkers(w, c) == Max(1, w \div c)
\* an outer pool sized with the number of combinations whatever the budget
AllCombosAtOnce(w, c) == c
ComboWorkers(w, c) ==
    IF PerComboWorkers(w, c) * c <= w THEN c
    ELSE Max(1, w \div PerComboWorkers(w, c))
\* every combination's inner pool sized with the whole budget
WholeBudgetPerCombo(w, c) == w

ActualPerCombo(w, c) ==
    IF PerComboWorkers(w, c) * c <= w THEN PerComboWorkers(w, c)
    ELSE Max(1, w \div ComboWorkers(w, c))

\* main.py 502
ActualTotalWorkers(w, c) == ComboWorkers(w, c) * ActualPerCombo(w, c)
\* a start that logs nothing about the budget
SilentReport(w, c) == <<>>
\* main.py 515-522: the warning with the unused workers, or the info line
CapacityReport(w, c) ==
    IF ActualTotalWorkers(w, c) < w
    THEN <<[level |-> "warning", unused |-> w - ActualTotalWorkers(w, c)]>>
    ELSE IF ActualTotalWorkers(w, c) = w
         THEN <<[level |-> "info", unused |-> 0]>>
         ELSE <<>>

(* ------------------------------------------------------------------ *)
(* result_converter.py: convert_to_module2_format                       *)
(* ------------------------------------------------------------------ *)
\* the classification tag of an input item (result_converter.py 174-176)
Scenario(id) == IF id = "q1" THEN "t1" ELSE "t2"

\* an agreement flag that one true round verdict sets
AgreementAny(match_gt_value) ==
    IF match_gt_value.dict
    THEN IF \E x \in DictKeys(match_gt_value) : GtTrue(match_gt_value.r[x])
         THEN 1 ELSE 0
    ELSE IF match_gt_value.b THEN 1 ELSE 0

\* 213-225: comparison.agreement_with_gt
AgreementWithGt(match_gt_value) ==
    IF match_gt_value.dict
    THEN IF /\ DictKeys(match_gt_value) # {}
            /\ \A x \in DictKeys(match_gt_value) : GtTrue(match_gt_value.r[x])
         THEN 1 ELSE 0
    ELSE IF match_gt_value.b THEN 1 ELSE 0

Rec(id, m, p, ans, gt, rt, proc) ==
    [question_id |-> id, scenario |-> Scenario(id), profile |-> p,
     model_name |-> m, answer |-> ans, match_gt |-> gt, response_time |-> rt,
     process |-> proc, agreement |-> AgreementWithGt(gt)]

\* what evaluate_single_item returned for the item:
\*   "ok"       single-round, an answer judged correct
\*   "wrong"    single-round, an answer judged incorrect
\*   "error"    single-round, model_data carries "error": answer ""
\*   a name of MultiRounds: two rounds, each judged correct ("T"), judged
\*              incorrect ("F") or carrying "error" ("E"): its answer is ""
\* In Spec the run draws "ok" or a failure (exception, None, top-level error
\* dict: no record) for each task; the other records are drawn as records an
\* earlier run stored.
RecordOutcomes == {"ok"}
StoredBodies == {"ok", "error", "multi", "partial", "blank"}

MultiRounds ==
    [multi    |-> <<"T", "T">>, multi_tf |-> <<"T", "F">>, partial |-> <<"T", "E">>,
     multi_ft |-> <<"F", "T">>, multi_ff |-> <<"F", "F">>, multi_fe |-> <<"F", "E">>,
     multi_et |-> <<"E", "T">>, multi_ef |-> <<"E", "F">>, blank   |-> <<"E", "E">>]

\* extracted answer and verdict of round x with outcome o (80-101)
RoundAnswer(o, x) == IF o = "E" THEN "" ELSE IF x = 1 THEN "A" ELSE "B"
RoundCorrect(o) == IF o = "T" THEN "T" ELSE "F"

ConvertToModule2(id, k, out) ==
    CASE out = "ok" ->
           Rec(id, combos[k].m, combos[k].p, SingleAns("A"), SingleGt(TRUE), 1, "P")
      [] out = "wrong" ->
           Rec(id, combos[k].m, combos[k].p, SingleAns("A"), SingleGt(FALSE), 1, "P")
      [] out = "error" ->
           Rec(id, combos[k].m, combos[k].p, SingleAns(""), SingleGt(FALSE), 0, "")
      [] OTHER ->
           LET r == MultiRounds[out]
           IN Rec(id, combos[k].m, combos[k].p,
                  DictAns(RoundAnswer(r[1], 1), RoundAnswer(r[2], 2)),
                  DictGt(RoundCorrect(r[1]), RoundCorrect(r[2])),
                  IF r = <<"E", "E">> THEN 0 ELSE 1, "P")

\* the characters of a response token (quotes and backticks written ', the
\* backslash of the marker left out)
TokenText(tok) ==
    CASE tok = "M" -> "boxed{" [] tok = "F" -> "'''json" [] tok = "T" -> "'''"
      [] tok = "Q" -> "'answer': '42'" [] tok = "QN" -> "'answer': 42"
      [] tok = "QO" -> "'other': 'x'" [] tok = "QU" -> "'answer': 'boxed{"
      [] tok = "D" -> "'" [] OTHER -> tok
RECURSIVE JoinTokens(_)
JoinTokens(text) == IF text = <<>> THEN "" ELSE TokenText(text[1]) \o JoinTokens(Tail(text))

\* a conversion that takes every model entry for a failed one
ConvertSingleFailed(id, k, model_data) ==
    Rec(id, combos[k].m, combos[k].p, SingleAns(""), SingleGt(FALSE), 0, "")

\* 136-147, 162-225 over the model entry eval_single_model returned: the
\* result_data of evaluator.py 634-645, or the error entry of 652-661
ConvertSingle(id, k, model_data) ==
    IF model_data.out = "error"
    THEN Rec(id, combos[k].m, combos[k].p, SingleAns(""), SingleGt(FALSE), 0, "")
    ELSE Rec(id, combos[k].m, combos[k].p, SingleAns(JoinTokens(model_data.extracted)),
             SingleGt(model_data.is_correct), 1, "P")

\* evaluator.py 536-541: round_item["answer"] is the item's reference answer
\* of the round
ReferenceAnswer(x) == "reference of " \o x

\* result_converter.py 79-102 for one entry of model_data["rounds"]
ConvertedRoundAnswer(round_data) ==
    IF round_data.error THEN ""
    ELSE IF round_data.extracted # <<>> THEN JoinTokens(round_data.extracted)
    ELSE ReferenceAnswer(round_data.round)

\* 56-116, 162-225 over the rounds of a multi-round item
ConvertRounds(id, k, rounds_list) ==
    Rec(id, combos[k].m, combos[k].p,
        DictAns(ConvertedRoundAnswer(rounds_list[1]), ConvertedRoundAnswer(rounds_list[2])),
        DictGt(IF rounds_list[1].is_correct THEN "T" ELSE "F",
               IF rounds_list[2].is_correct THEN "T" ELSE "F"),
        1, "P")

\* the question types after normalize_question_type: none, the three of
\* CHOICE_QUESTION_TYPES (164), and a type that takes no options
QuestionTypes == {"", "single_choice", "multi_choice", "multi_round_choice", "open"}
CHOICE_QUESTION_TYPES == {"single_choice", "multi_choice", "multi_round_choice"}

\* the "options" of an input item:
\*   "none"             no options (None)
\*   "empty"            {}
\*   "not_dict"         a list or a string
\*   "shared"           {"A": "x", "B": "y"}
\*   "shared_blank"     {"A": "", "B": ""}
\*   "per_round"        {"round1": {"A": "x"}, "round2": {"A": "y"}}
\*   "per_round_gap"    {"round1": {"A": "x"}}
\*   "per_round_blank"  {"round1": {"A": "x"}, "round2": {"A": ""}}
OptionShapes == {"none", "empty", "not_dict", "shared", "shared_blank",
                 "per_round", "per_round_gap", "per_round_blank"}

OptionsIsDict(opts) == opts \notin {"none", "not_dict"}

\* 202: any(k.startswith("round") for k in options.keys())
HasRoundKeys(opts) == opts \in {"per_round", "per_round_gap", "per_round_blank"}

\* 207, 284: options.get(round_key) of round j
RoundOptions(opts, j) ==
    CASE opts = "per_round" -> "shared"
      [] opts = "per_round_gap" -> IF j = 1 THEN "shared" ELSE "none"
      [] opts = "per_round_blank" -> IF j = 1 THEN "shared" ELSE "shared_blank"
      [] OTHER -> "none"

\* 173-180: a dict one of whose values is truthy
has_valid_options(opts) ==
    OptionsIsDict(opts) /\ opts \notin {"empty", "shared_blank"}

\* 167-171
is_choice_question(q_type) == q_type # "" /\ q_type \in CHOICE_QUESTION_TYPES

\* an options check that lets every item pass
NoOptionsCheck(is_multi_round, q_type, opts) == "valid"

\* 183-225: "no_options" where the check raises ValueError
CheckOptions(is_multi_round, q_type, opts) ==
    IF is_multi_round
    THEN IF q_type = "multi_round_choice"
         THEN IF ~OptionsIsDict(opts) \/ opts = "empty" THEN "no_options"
              ELSE IF HasRoundKeys(opts)
                   THEN IF \E j \in 1..Len(Rounds) : ~has_valid_options(RoundOptions(opts, j))
                        THEN "no_options" ELSE "valid"
                   ELSE IF ~has_valid_options(opts) THEN "no_options" ELSE "valid"
         ELSE "valid"
    ELSE IF is_choice_question(q_type) /\ ~has_valid_options(opts)
         THEN "no_options" ELSE "valid"

\* what the executor call of one task came to, as process_combo sees it:
\* evaluate_single_item raised, returned nothing, found the item's options
\* missing (194-225) or a media file missing (117), or evaluated the item
InputStates == {"raises", "returns_none", "no_options", "no_media", "valid"}

\* what one round came to: an answer judged correct or incorrect, the model
\* call raising after its retries, the judge call raising after its retries
JudgeOutcomes == {"T", "F", "judge_fail"}
RoundOutcomes == JudgeOutcomes \cup {"model_fail"}
RoundFailed(o) == o \in {"model_fail", "judge_fail"}

\* the round entry: "error" for a failed round (510-524)
RoundMark(o) == IF RoundFailed(o) THEN "E" ELSE o

\* the input item "q1" is a multi-round item, of which a record holds the
\* rounds of Rounds, "q2" is a single-round item; the
\* first round of a multi-round item is answered and judged correct
IsMultiRound(id) == id = "q1"
ItemOutcomes(id) ==
    IF IsMultiRound(id)
    THEN {outs \in [1..Len(Rounds) -> RoundOutcomes] : outs[1] = "T"}
    ELSE [1..1 -> RoundOutcomes]

\* evaluator.py 526-561: "is_correct" of the model entry of a multi-round
\* item; the entry of a judged round carries the verdict (496), the entry of
\* a failed round False (518)
ModelAllCorrect(outs) == \A j \in 1..Len(outs) : RoundMark(outs[j]) = "T"

\* the results the collect loop turns into a failure entry (main.py 556-567)
FailedResults == {"raised", "none", "error_result"}

\* evaluate_single_item for one model and one persona; outs holds the outcome
\* of the single round or of the two rounds
EvaluateSingleItem(input, outs) ==
    CASE input = "raises" -> "raised"
      [] input = "returns_none" -> "none"
      [] input \in {"no_options", "no_media"} -> "error_result"
      [] OTHER ->
           IF Len(outs) = 1
           THEN IF RoundFailed(outs[1]) THEN "error"
                ELSE IF outs[1] = "T" THEN "ok" ELSE "wrong"
           ELSE CHOOSE b \in DOMAIN MultiRounds :
                    MultiRounds[b] = <<RoundMark(outs[1]), RoundMark(outs[2])>>

(* ------------------------------------------------------------------ *)
(* model_api.py: call_model_api; evaluator.py: the rounds of a          *)
(* multi-round conversation                                             *)
(* ------------------------------------------------------------------ *)
RECURSIVE Pow2(_)
Pow2(n) == IF n = 0 THEN 1 ELSE 2 * Pow2(n - 1)

\* a wait that does not grow
ConstantWait(retry_delay, attempt) == retry_delay

\* 653: wait_time = retry_delay * (2 ** attempt)
WaitTime(retry_delay, attempt) == retry_delay * Pow2(attempt)

\* no call in progress
NoCall == [status |-> "idle", attempt |-> 0, made |-> 0, waits |-> <<>>,
           answer |-> NoneV]

\* 490, 668: the loop `for attempt in range(max_retries)`; without an
\* iteration the call raises at once
BeginCall(max_retries) ==
    [NoCall EXCEPT !.status = IF max_retries <= 0 THEN "raised" ELSE "trying"]

\* 499-643: the attempt produced a non-empty answer, which is returned
AttemptReturns(call) ==
    [call EXCEPT !.status = "returned", !.made = @ + 1, !.answer = "A"]

\* 645-665: the attempt raised (request error, no choices, empty content):
\* sleep and go on, or re-raise after the last attempt
AttemptRaises(call, max_retries, retry_delay) ==
    IF call.attempt < max_retries - 1
    THEN [call EXCEPT !.made = @ + 1, !.attempt = @ + 1,
                      !.waits = Append(@, WaitTime(retry_delay, call.attempt))]
    ELSE [call EXCEPT !.made = @ + 1, !.status = "raised"]

UserTurn(r, media) == [role |-> "user", round |-> r, media |-> media]
AssistantTurn(r) == [role |-> "assistant", round |-> r, media |-> FALSE]

\* 306-317, 381-385: some user turn of the messages carries an image part
HasImage(messages) ==
    \E j \in 1..Len(messages) : messages[j].role = "user" /\ messages[j].media

\* a round's user turn that carries the media whatever the history holds
AttachAlways(history, r, media) == UserTurn(r, media)

\* 321-359: the user turn of round r; the media are added when the item has
\* media and no user turn of the history carries any
CurrentUserMsg(history, r, media) == UserTurn(r, media /\ ~HasImage(history))

\* 349-413: call_model_api adds the media to the first message when it is a
\* user turn without an image part
WithFirstImage(messages, media) ==
    IF messages # <<>> /\ messages[1].role = "user" /\ media /\ ~messages[1].media
    THEN [messages EXCEPT ![1].media = TRUE]
    ELSE messages

\* 300, 361-369: the messages of round r as the request carries them
RequestMessages(history, r, media) ==
    WithFirstImage(Append(history, CurrentUserMsg(history, r, media)), media)

\* 381-420: the history after a round whose model call returned; the first
\* message of the request is the history's own first message, so the media
\* call_model_api added to it stay in the history
HistoryAfter(history, r, media) ==
    LET sent == RequestMessages(history, r, media)
        cur  == sent[Len(sent)]
        kept == IF history = <<>> THEN history
                ELSE [history EXCEPT ![1] = sent[1]]
    IN kept \o <<UserTurn(r, cur.media /\ media /\ ~HasImage(kept)),
                 AssistantTurn(r)>>

\* no evaluation in progress
NoEval == [n |-> 0, media |-> FALSE, max_retries |-> 0, retry_delay |-> 0,
           round |-> 0, phase |-> "none", history |-> <<>>, sent |-> <<>>,
           outs |-> <<>>, call |-> NoCall]

(* ------------------------------------------------------------------ *)
(* model_api.py: the answer extraction chain                            *)
(* ------------------------------------------------------------------ *)
\* A text is a sequence of lexical tokens:
\*   "M"   the marker \boxed{            "{" "}"  braces
\*   "A" "B" "C"  ordinary characters    " "      whitespace
\*   "F"   the fence ```json             "T"      the fence ```
\*   "Q"   the member "answer": "42"     "QN"     the member "answer": 42
\*   "QO"  the member "other": "x"
\*   "QU"  the text "answer": "\boxed   (an open string value)
\*   "D"   a double quote that ends a string value
\*   "W"   a run of 40 ordinary characters
TokenChars(tok) ==
    CASE tok = "M" -> 7   [] tok = "F" -> 7   [] tok = "T" -> 3
      [] tok = "Q" -> 14  [] tok = "QN" -> 12 [] tok = "QO" -> 12
      [] tok = "QU" -> 23 [] tok = "W" -> 40 [] OTHER -> 1

RECURSIVE TextChars(_)
TextChars(text) ==
    IF text = <<>> THEN 0 ELSE TokenChars(text[1]) + TextChars(Tail(text))

\* the tokens that hold the character "{"
HasOpenBrace(tok) == tok \in {"M", "{"}

RECURSIVE LStrip(_)
LStrip(text) == IF text # <<>> /\ text[1] = " " THEN LStrip(Tail(text)) ELSE text
RECURSIVE RStrip(_)
RStrip(text) ==
    IF text # <<>> /\ text[Len(text)] = " "
    THEN RStrip(SubSeq(text, 1, Len(text) - 1)) ELSE text
\* str.strip()
StripText(text) == RStrip(LStrip(text))

\* the least index >= pos of a token that satisfies Test, 0 when there is none
FirstIndex(text, pos, Test(_)) ==
    LET found == {j \in pos..Len(text) : Test(text[j])}
    IN IF found = {} THEN 0 ELSE CHOOSE j \in found : \A h \in found : j <= h

LastIndex(text, Test(_)) ==
    LET found == {j \in 1..Len(text) : Test(text[j])}
    IN IF found = {} THEN 0 ELSE CHOOSE j \in found : \A h \in found : j >= h

\* 693-705: the index of the closing brace, scanning from i at the given
\* depth; 0 when the text ends first
RECURSIVE CloseFrom(_, _, _)
CloseFrom(text, i, depth) ==
    IF i > Len(text) THEN 0
    ELSE IF HasOpenBrace(text[i]) THEN CloseFrom(text, i + 1, depth + 1)
    ELSE IF text[i] = "}"
         THEN IF depth = 0 THEN i ELSE CloseFrom(text, i + 1, depth - 1)
         ELSE CloseFrom(text, i + 1, depth)

\* 685-715: the scan from pos; last is the last non-empty content so far
RECURSIVE BoxedScan(_, _, _)
BoxedScan(text, pos, last) ==
    LET start_idx == FirstIndex(text, pos, LAMBDA tok : tok = "M")
    IN IF start_idx = 0 THEN last
       ELSE LET end_idx == CloseFrom(text, start_idx + 1, 0)
            IN IF end_idx # 0
               THEN LET content == StripText(SubSeq(text, start_idx + 1, end_idx - 1))
                    IN BoxedScan(text, end_idx + 1,
                                 IF content # <<>> THEN content ELSE last)
               ELSE BoxedScan(text, start_idx + 1, last)

\* a marker scan that takes the first closing brace after the last marker
NaiveBoxed(text) ==
    LET start_idx == LastIndex(text, LAMBDA tok : tok = "M")
        end_idx   == IF start_idx = 0 THEN 0
                     ELSE FirstIndex(text, start_idx + 1, LAMBDA tok : tok = "}")
    IN IF end_idx = 0 THEN <<>>
       ELSE StripText(SubSeq(text, start_idx + 1, end_idx - 1))

\* extract_boxed_content (671-718); <<>> stands for None
extract_boxed_content(text) == BoxedScan(text, 1, <<>>)

\* json.loads of a piece of text that starts with "{" and ends with "}":
\* whether it parses, and the "answer" of the object
NoJson == [ok |-> FALSE, empty |-> TRUE, has_answer |-> FALSE, is_str |-> FALSE,
           answer |-> <<>>]
JsonLoads(piece) ==
    LET inner == StripText(SubSeq(piece, 2, Len(piece) - 1))
        obj(has, str, ans) == [ok |-> TRUE, empty |-> FALSE, has_answer |-> has,
                               is_str |-> str, answer |-> ans]
    IN IF Len(piece) < 2 THEN NoJson
       ELSE IF inner = <<>> THEN [NoJson EXCEPT !.ok = TRUE]
       ELSE IF inner = <<"Q">> THEN obj(TRUE, TRUE, <<"4", "2">>)
       ELSE IF inner = <<"QN">> THEN obj(TRUE, FALSE, <<"4", "2">>)
       ELSE IF inner = <<"QO">> THEN obj(FALSE, FALSE, <<>>)
       ELSE IF /\ Len(inner) >= 4
               /\ inner[1] = "QU" /\ inner[2] = "{"
               /\ inner[Len(inner) - 1] = "}" /\ inner[Len(inner)] = "D"
               /\ \A j \in 3..(Len(inner) - 2) : inner[j] \in {"A", "B", "C", " "}
            THEN obj(TRUE, TRUE,
                     <<"M">> \o SubSeq(inner, 3, Len(inner) - 2) \o <<"}">>)
       ELSE NoJson

\* an object scan that finds nothing
NoJsonInText(text) == NoJson

\* extract_json_from_text (721-751) over a stripped text
extract_json_from_text(text) ==
    LET open  == FirstIndex(text, 1, HasOpenBrace)
        close == LastIndex(text, LAMBDA tok : tok = "}")
        \* 733-734: the fenced alternative matches at a fence that comes
        \* before the first brace and is followed by it
        fence == FirstIndex(text, 1, LAMBDA tok : tok = "F")
        fenced_end ==
            IF fence = 0 \/ open = 0 \/ fence > open \/ text[open] # "{"
               \/ \E j \in (fence + 1)..(open - 1) : text[j] # " "
            THEN 0
            ELSE LET ends == {e \in (open + 1)..Len(text) :
                                 /\ text[e] = "}"
                                 /\ \E f \in (e + 1)..Len(text) :
                                       /\ text[f] \in {"T", "F"}
                                       /\ \A j \in (e + 1)..(f - 1) : text[j] = " "}
                 IN IF ends = {} THEN 0
                    ELSE CHOOSE e \in ends : \A h \in ends : e <= h
        span == IF open # 0 /\ close # 0 /\ open <= close
                THEN <<"{">> \o SubSeq(text, open + 1, close) ELSE <<>>
        match == IF fenced_end # 0 THEN SubSeq(text, open, fenced_end)
                 ELSE IF open # 0 /\ close > open THEN span ELSE <<>>
    IN IF match # <<>> /\ JsonLoads(match).ok THEN JsonLoads(match)
       ELSE IF span # <<>> /\ JsonLoads(span).ok THEN JsonLoads(span)
       ELSE NoJson

\* estimate_text_tokens (167-182)
estimate_text_tokens(text) ==
    IF text = <<>> THEN 0 ELSE (TextChars(text) \div 4) + 1

\* text[-n:] and text[n:] for a cut that falls between two tokens
RECURSIVE LastChars(_, _)
LastChars(text, n) ==
    IF TextChars(text) <= n THEN text ELSE LastChars(Tail(text), n)
RECURSIVE DropChars(_, _)
DropChars(text, n) ==
    IF n <= 0 \/ text = <<>> THEN text
    ELSE DropChars(Tail(text), n - TokenChars(text[1]))

\* 813-815
RECURSIVE ShrinkToTokens(_, _)
ShrinkToTokens(truncated, n_tokens) ==
    IF estimate_text_tokens(truncated) > n_tokens /\ truncated # <<>>
    THEN ShrinkToTokens(DropChars(truncated, (TextChars(truncated) * 9) \div 10),
                        n_tokens)
    ELSE truncated

\* truncate_last_n_tokens (784-817)
truncate_last_n_tokens(text, n_tokens) ==
    IF text = <<>> THEN <<>>
    ELSE IF estimate_text_tokens(text) <= n_tokens THEN text
    ELSE ShrinkToTokens(LastChars(text, n_tokens * 4), n_tokens)

\* the outcome of a stage of extract_answer_from_response: it returned the
\* pair (extracted_answer, is_from_box), raised, or produced nothing
Produced(extracted, is_from_box) ==
    [out |-> "returned", extracted |-> extracted, is_from_box |-> is_from_box]
Nothing == [out |-> "nothing", extracted |-> <<>>, is_from_box |-> FALSE]
Raised  == [out |-> "raised", extracted |-> <<>>, is_from_box |-> FALSE]

\* 843-848
Stage1(original_response) ==
    LET boxed_content == extract_boxed_content(original_response)
    IN IF boxed_content # <<>> THEN Produced(boxed_content, TRUE) ELSE Nothing

\* 850-865; an "answer" that is a number has no find(): AttributeError
Stage2(original_response) ==
    LET result_json == extract_json_from_text(original_response)
    IN IF ~result_json.ok \/ result_json.empty \/ ~result_json.has_answer
       THEN Nothing
       ELSE IF ~result_json.is_str THEN Raised
       ELSE IF extract_boxed_content(result_json.answer) # <<>>
            THEN Produced(extract_boxed_content(result_json.answer), TRUE)
       ELSE IF StripText(result_json.answer) # <<>>
            THEN Produced(StripText(result_json.answer), FALSE)
       ELSE Nothing

\* 867-873
Stage3(original_response) ==
    LET truncated_content == truncate_last_n_tokens(original_response, 100)
    IN IF truncated_content # <<>> /\ StripText(truncated_content) # <<>>
       THEN Produced(truncated_content, FALSE) ELSE Nothing

\* 875-877
Stage4(original_response) == Produced(original_response, FALSE)

StageResult(n, original_response) ==
    CASE n = 1 -> Stage1(original_response)
      [] n = 2 -> Stage2(original_response)
      [] n = 3 -> Stage3(original_response)
      [] OTHER -> Stage4(original_response)

\* an assistant turn that holds the whole response
WholeResponse(extracted_answer, original_response) == original_response

\* evaluator.py 414-416
brief_answer_for_history(extracted_answer, original_response) ==
    IF extracted_answer # <<>> /\ StripText(extracted_answer) # <<>>
    THEN extracted_answer
    ELSE IF TextChars(original_response) > 300
         THEN LastChars(original_response, 300)
         ELSE original_response

\* a judge input that is always the extracted text
AlwaysExtracted(extracted_answer, is_from_box, original_response) == extracted_answer

\* evaluator.py 447, 598
AnswerForJudge(extracted_answer, is_from_box, original_response) ==
    IF ~is_from_box THEN original_response ELSE extracted_answer

\* no extraction in progress
NoExtract == [round |-> 0, stage |-> 0, out |-> "none", response |-> <<>>,
              original_response |-> <<>>, extracted |-> <<>>,
              is_from_box |-> FALSE, answer_for_judge |-> <<>>, is_correct |-> FALSE,
              history |-> <<>>, rounds |-> <<>>]

\* records this code does not write but its emptiness tests provide for:
\*   "null"     answer None
\*   "space"    answer of whitespace only, verdict true
\*   "missing"  per-round answer map without the entry of round 2, whose
\*              verdict entry is present
ForeignBodies == {"null", "space", "missing"}

ForeignRecord(id, k, body) ==
    CASE body = "null" ->
           Rec(id, combos[k].m, combos[k].p, SingleAns(NoneV), SingleGt(FALSE), 1, "P")
      [] body = "space" ->
           Rec(id, combos[k].m, combos[k].p, SingleAns(" "), SingleGt(TRUE), 1, "P")
      [] OTHER ->
           Rec(id, combos[k].m, combos[k].p, DictAns("A", Missing), DictGt("T", "T"), 1, "P")

\* the record shapes the statistics are applied to (SpecStats)
ScoredBodies == {"ok", "wrong", "error", "multi", "multi_tf", "partial", "blank"}
                    \cup ForeignBodies

(* ------------------------------------------------------------------ *)
(* State                                                                *)
(* ------------------------------------------------------------------ *)
VARIABLES
    output_format,     \* "json" or "jsonl"
    workers,           \* EVAL_WORKERS
    batch_size,        \* EVAL_BATCH_SIZE
    count_by_rounds,   \* EVAL_CONFIG["multi_round_count_by_rounds"]
    raw_items,         \* question ids of the loaded input, in order
    file,              \* file[k]: the artifact of combination k on disk
    file0,             \* the artifacts as the run found them
    tmp,               \* tmp[k]: the temporary sibling path of artifact k
    handle,            \* handle[k]: the JSONL append handle is open
    completed_items,   \* completed_items[k]: set of question ids
    loaded,            \* loaded[k]: the resume load of k set completed_items[k]
    result_buffers,    \* result_buffers[k]: records waiting for a flush
    mpc, midx,         \* main thread: position, and key index of its loops
    interrupted,       \* main.py 607/618
    cpc,               \* cpc[k]: position of process_combo(k)
    tasks,             \* tasks[k]: the futures of the inner pool of k
    rw,                \* rw[t]: rewrite in progress of thread t (0 = main, k)
    faults,            \* write faults left to inject
    perr,              \* perr[k]: a persistence error was logged for k
    failures,          \* run-level failure list, as a set of <<k, id>>
    emitted,           \* emitted[k]: ids of the records handed to persistence
    capacity_log       \* what main.py 515-522 logged about the worker budget

vars == <<output_format, workers, batch_size, count_by_rounds, raw_items, file,
          file0, tmp, handle, completed_items, loaded, result_buffers, mpc, midx,
          interrupted, cpc, tasks, rw, faults, perr, failures, emitted,
          capacity_log>>

config_vars == <<output_format, workers, batch_size, count_by_rounds, raw_items, file0>>

items == DedupItems(raw_items, 1, <<>>)

EmptyStats == [total |-> Pair0,
               by_model |-> [m \in {} |-> Pair0],
               by_profile |-> [p \in {} |-> Pair0],
               by_category |-> [c \in {} |-> Pair0]]
\* garbled: the lines of the artifact that hold a record and do not parse
NoFile == [exists |-> FALSE, results |-> <<>>, torn |-> FALSE, garbled |-> 0,
           statistics |-> EmptyStats]
NoTmp  == [exists |-> FALSE, results |-> <<>>, complete |-> FALSE, statistics |-> EmptyStats]
Idle   == [stage |-> "idle", k |-> 0, results |-> <<>>, purpose |-> "none", done |-> {}]

\* a rewrite that writes the placeholder header instead of the statistics
PlaceholderStats(results) == EmptyStats

Stats(results) == CalculateOutputStatistics(results, enabled_models, count_by_rounds)

SeqsUpTo(S, n) == UNION {[1..m -> S] : m \in 0..n}

\* the records an earlier run of combination k left: recs[j] = <<id, body>>
StoredRecs(k, recs) ==
    [j \in 1..Len(recs) |-> IF recs[j][2] \in ForeignBodies
                            THEN ForeignRecord(recs[j][1], k, recs[j][2])
                            ELSE ConvertToModule2(recs[j][1], k, recs[j][2])]

Absent == [present |-> FALSE, recs |-> <<>>, torn |-> FALSE]
Present(recs) == [present |-> TRUE, recs |-> recs, torn |-> FALSE]
\* the artifact of a run that was killed in the middle of an append: its last
\* line is partial
PresentTorn(recs) == [present |-> TRUE, recs |-> recs, torn |-> TRUE]

\* the state after construction, the configuration and the artifacts an
\* earlier run left being drawn from the given sets
InitOf(formats, worker_counts, batch_sizes, inputs, stored, scoring) ==
    /\ output_format \in formats
    /\ workers \in worker_counts
    /\ batch_size \in batch_sizes
    /\ count_by_rounds \in scoring
    /\ raw_items \in inputs
    /\ \E st \in stored :
          file = [k \in K |->
                IF st.present
                THEN [exists |-> TRUE, results |-> StoredRecs(k, st.recs), torn |-> st.torn,
                      garbled |-> 0,
                      statistics |-> CalculateOutputStatistics(
                                         StoredRecs(k, st.recs), enabled_models,
                                         count_by_rounds)]
                ELSE NoFile]
    /\ file0 = file
    /\ tmp = [k \in K |-> NoTmp]
    /\ handle = [k \in K |-> FALSE]
    /\ completed_items = [k \in K |-> {}]
    /\ loaded = [k \in K |-> FALSE]
    /\ result_buffers = [k \in K |-> <<>>]
    /\ mpc = "load"
    /\ midx = 1
    /\ interrupted = FALSE
    /\ cpc = [k \in K |-> "none"]
    /\ tasks = [k \in K |-> <<>>]
    /\ rw = [t \in 0..num_combos |-> Idle]
    /\ faults = MaxFaults
    /\ perr = [k \in K |-> FALSE]
    /\ failures = {}
    /\ emitted = [k \in K |-> <<>>]
    /\ capacity_log = <<>>

\* a fresh run, or a run resumed over an artifact that holds a judged record
\* of "q1" followed by an empty-answer record of it
Init ==
    InitOf({"json", "jsonl"}, 1..MaxWorkers, 1..MaxBatch, SeqsUpTo(Ids, MaxItems),
           {Absent, Present(<<(<<"q1", "ok">>), (<<"q1", "error">>)>>)}, {TRUE})

\* a run over both inputs, resumed over any stored sequence of up to
\* MaxStored records of the shapes of ScoredBodies
InitStats ==
    InitOf({"json", "jsonl"}, {MaxWorkers}, {MaxBatch}, {<<"q1", "q2">>},
           {Present(recs) : recs \in SeqsUpTo(Ids \X ScoredBodies, MaxStored)},
           BOOLEAN)

\* a fresh JSON run over two items with one inner worker per combination
InitTasks ==
    InitOf({"json"}, {1}, {MaxBatch}, {<<"q1", "q2">>}, {Absent}, BOOLEAN)

\* a fresh run over one multi-round item
InitCall ==
    InitOf({"json"}, {1}, {MaxBatch}, {<<"q1">>}, {Absent}, {FALSE})

\* a JSONL run resumed over artifacts whose last line is partial
InitKilled ==
    InitOf({"jsonl"}, {1}, {MaxBatch}, {<<"q1", "q2">>},
           {PresentTorn(<<>>), PresentTorn(<<(<<"q1", "ok">>)>>)}, {TRUE})

\* the runs of Init with one or two workers and every EVAL_BATCH_SIZE that
\* config.py 288 accepts (a string of digits) up to MaxBatch
InitBatch ==
    InitOf({"json", "jsonl"}, 1..2, 0..MaxBatch, SeqsUpTo(Ids, MaxItems),
           {Absent, Present(<<(<<"q1", "ok">>), (<<"q1", "error">>)>>)}, {TRUE})

\* a fresh run over the one single-round item, in both scoring modes
InitScenario ==
    InitOf({"json"}, {1}, 1..MaxBatch, {<<"q2">>}, {Absent}, BOOLEAN)

\* a fresh run over the multi-round item
InitHistory ==
    InitOf({"json"}, {1}, {MaxBatch}, {<<"q1">>}, {Absent}, {FALSE})

\* a fresh run over the single-round item
InitWindow ==
    InitOf({"json"}, {1}, {MaxBatch}, {<<"q2">>}, {Absent}, {FALSE})

\* a fresh run over a multi-round and a single-round item, scored by items
InitExtract ==
    InitOf({"json"}, {1}, {MaxBatch}, {<<"q1", "q2">>}, {Absent}, {FALSE})

\* the responses of the model: every text of up to MaxBoxText tokens over
\* the marker alphabet, and every text put together from up to MaxParts of:
\* single tokens, \boxed{A}, \boxed{A\boxed{B}C}, {"answer": "42"}, the same
\* object fenced, {"answer": "\boxed{A}"}, {"answer": 42}, {"other": "x"}
BoxTokens == {"M", "{", "}", "A", " "}
ResponseParts ==
    {<<tok>> : tok \in BoxTokens} \cup
    {<<"M", "A", "}">>, <<"M", "A", "M", "B", "}", "C", "}">>,
     <<"{", "Q", "}">>, <<"F", "{", "Q", "}", "T">>,
     <<"{", "QU", "{", "A", "}", "D", "}">>, <<"{", "QN", "}">>,
     <<"{", "QO", "}">>}

RECURSIVE Flatten(_)
Flatten(ps) == IF ps = <<>> THEN <<>> ELSE ps[1] \o Flatten(Tail(ps))

\* call_model_api returns no empty answer (model_api.py 566-568)
\* responses whose one marker holds C, alone or inside other text
BoxedC ==
    {pre \o <<"M", "C", "}">> \o post :
        pre \in {<<>>, <<" ">>, <<"A", " ">>, <<"{", "Q", "}", " ">>},
        post \in {<<>>, <<" ">>, <<" ", "B">>}}
\* and responses with another marker, a later marker, no marker, an answer
\* that makes the extraction raise
ScenarioResponses ==
    BoxedC \cup {<<"M", "B", "}">>, <<"M", "C", "}", " ", "M", "B", "}">>,
                 <<"M", "B", "}", " ", "M", "C", "}">>, <<"C">>, <<"{", "QN", "}">>}

\* a text of n ordinary characters without blanks: single characters and
\* then runs of 40, so that the cuts of the trailing window of 400 characters
\* and of its tenth fall between two tokens
PlainText(n) ==
    [j \in 1..(n % 40) |-> IF j % 2 = 0 THEN "A" ELSE "B"]
        \o [j \in 1..(n \div 40) |-> "W"]

\* the responses without marker or object of every length up to MaxChars
WindowResponses == {PlainText(n) : n \in 1..MaxChars}

\* short and long responses to a round: plain, blank, with a marker, with
\* an object, with an object that makes the extraction raise
HistoryResponses ==
    {<<"A">>, <<" ">>, <<"A", " ", "M", "C", "}">>, <<"{", "Q", "}">>,
     <<"{", "QN", "}">>, PlainText(MaxChars - 3), PlainText(MaxChars),
     <<"M">> \o PlainText(MaxChars) \o <<"}">>,
     PlainText(MaxChars) \o <<" ", "M", "C", "}">>}

\* the responses to a round: blank, plain, with a marker, with an object that
\* makes the extraction raise
RoundResponses == {<<" ">>, <<"A">>, <<"A", " ", "M", "C", "}">>, <<"{", "QN", "}">>}

Responses ==
    ({Flatten(ps) : ps \in SeqsUpTo(ResponseParts, MaxParts)}
        \cup SeqsUpTo(BoxTokens, MaxBoxText)) \ {<<>>}

\* a run resumed over any stored sequence of up to MaxStored records
InitResume ==
    InitOf({"json", "jsonl"}, {MaxWorkers}, {MaxBatch}, SeqsUpTo(Ids, MaxItems),
           {Absent} \cup {Present(recs) : recs \in SeqsUpTo(Ids \X StoredBodies, MaxStored)},
           BOOLEAN)

(* ------------------------------------------------------------------ *)
(* Rewrite of an artifact through its temporary sibling path            *)
(*   open(temp_file, 'w') ; json.dump / write ; temp_file.replace       *)
(* ------------------------------------------------------------------ *)
Alive == mpc # "exited"

\* the thread's next step after its rewrite ended (committed or failed)
AfterRewrite(t) ==
    IF t = 0
    THEN /\ midx' = midx + 1
         /\ UNCHANGED <<mpc, cpc>>
    ELSE /\ cpc' = [cpc EXCEPT ![t] = IF @ = "batchflush" THEN "collect" ELSE "done"]
         /\ UNCHANGED <<mpc, midx>>

\* open(temp_file, 'w'): the temporary file exists and is empty
OpenTmp(t, k, results, purpose, done) ==
    /\ tmp' = [tmp EXCEPT ![k] = [exists |-> TRUE, results |-> <<>>, complete |-> FALSE,
                                  statistics |-> EmptyStats]]
    /\ rw' = [rw EXCEPT ![t] = [stage |-> "opened", k |-> k, results |-> results,
                                purpose |-> purpose, done |-> done]]

\* json.dump(...) into the temporary file succeeded and the file was closed.
\* Another thread that holds the same path open writes into the same file:
\* what the file then holds is complete or not.
WriteTmpOk(t) ==
    /\ Alive
    /\ rw[t].stage = "opened"
    /\ LET k == rw[t].k
           shared == \E u \in DOMAIN rw : u # t /\ rw[u].stage = "opened" /\ rw[u].k = k
       IN \E complete \in BOOLEAN :
             /\ complete \/ shared
             /\ tmp' = [tmp EXCEPT ![k] = [exists |-> TRUE, results |-> rw[t].results,
                                           complete |-> complete,
                                           statistics |-> Stats(rw[t].results)]]
    /\ rw' = [rw EXCEPT ![t].stage = "written"]
    /\ UNCHANGED <<config_vars, capacity_log, file, handle, completed_items, loaded, result_buffers,
                   mpc, midx, interrupted, cpc, tasks, faults, perr, failures, emitted>>

\* a failing rewrite that had opened the target path itself for writing
WriteTmpFailInPlace(t) ==
    /\ Alive
    /\ rw[t].stage = "opened"
    /\ faults > 0
    /\ faults' = faults - 1
    /\ file' = [file EXCEPT ![rw[t].k] = [@ EXCEPT !.exists = TRUE, !.torn = TRUE]]
    /\ tmp' = [tmp EXCEPT ![rw[t].k] = NoTmp]
    /\ perr' = [perr EXCEPT ![rw[t].k] = TRUE]
    /\ rw' = [rw EXCEPT ![t] = Idle]
    /\ AfterRewrite(t)
    /\ UNCHANGED <<config_vars, capacity_log, handle, completed_items, loaded, result_buffers,
                   interrupted, tasks, failures, emitted>>

\* the write raised: `if temp_file.exists(): temp_file.unlink()` and re-raise;
\* the callers log the error and go on (main.py 422-438, 703-707, 725-731,
\* result_converter.py 296-302)
WriteTmpFail(t) ==
    /\ Alive
    /\ rw[t].stage = "opened"
    /\ faults > 0
    /\ faults' = faults - 1
    /\ tmp' = [tmp EXCEPT ![rw[t].k] = NoTmp]
    /\ perr' = [perr EXCEPT ![rw[t].k] = TRUE]
    /\ rw' = [rw EXCEPT ![t] = Idle]
    /\ AfterRewrite(t)
    /\ UNCHANGED <<config_vars, capacity_log, file, handle, completed_items, loaded, result_buffers,
                   interrupted, tasks, failures, emitted>>

\* temp_file.replace(output_file).  After the resume rewrite the load goes on
\* to set completed_items (main.py 428-431); after a flush the buffer is
\* cleared in a later statement (ClearBuffer).
ReplaceTmp(t) ==
    /\ Alive
    /\ rw[t].stage = "written"
    /\ LET k == rw[t].k
       IN IF tmp[k].exists
          THEN /\ file' = [file EXCEPT ![k] = [exists |-> TRUE,
                                               results |-> tmp[k].results,
                                               torn |-> ~tmp[k].complete,
                                               garbled |-> 0,
                                               statistics |-> tmp[k].statistics]]
               /\ tmp' = [tmp EXCEPT ![k] = NoTmp]
               /\ completed_items' = IF rw[t].purpose = "resume"
                                     THEN [completed_items EXCEPT ![k] = rw[t].done]
                                     ELSE completed_items
               /\ loaded' = IF rw[t].purpose = "resume"
                            THEN [loaded EXCEPT ![k] = TRUE] ELSE loaded
               /\ IF rw[t].purpose = "flush"
                  THEN /\ rw' = [rw EXCEPT ![t].stage = "replaced"]
                       /\ UNCHANGED <<mpc, midx, cpc>>
                  ELSE /\ rw' = [rw EXCEPT ![t] = Idle]
                       /\ AfterRewrite(t)
               /\ UNCHANGED perr
          ELSE \* the path was unlinked by another thread: replace() raises
               /\ perr' = [perr EXCEPT ![k] = TRUE]
               /\ rw' = [rw EXCEPT ![t] = Idle]
               /\ AfterRewrite(t)
               /\ UNCHANGED <<file, tmp, completed_items, loaded>>
    /\ UNCHANGED <<config_vars, capacity_log, handle, result_buffers, interrupted, tasks, faults,
                   failures, emitted>>

\* a flush that leaves the written records in the buffer
LeaveBuffer(t) ==
    /\ Alive
    /\ rw[t].stage = "replaced"
    /\ rw' = [rw EXCEPT ![t] = Idle]
    /\ AfterRewrite(t)
    /\ UNCHANGED <<config_vars, capacity_log, file, tmp, handle, completed_items, loaded,
                   result_buffers, interrupted, tasks, faults, perr, failures, emitted>>

\* result_converter.py 295: result_buffers[key] = []
ClearBuffer(t) ==
    /\ Alive
    /\ rw[t].stage = "replaced"
    /\ result_buffers' = [result_buffers EXCEPT ![rw[t].k] = <<>>]
    /\ rw' = [rw EXCEPT ![t] = Idle]
    /\ AfterRewrite(t)
    /\ UNCHANGED <<config_vars, capacity_log, file, tmp, handle, completed_items, loaded, interrupted,
                   tasks, faults, perr, failures, emitted>>

(* ------------------------------------------------------------------ *)
(* main.py 185-458: per combination, resume load and output file setup  *)
(* ------------------------------------------------------------------ *)
HeaderOnly == [exists |-> TRUE, results |-> <<>>, torn |-> FALSE, garbled |-> 0,
               statistics |-> EmptyStats]

LoadJsonl ==
    /\ mpc = "load" /\ midx <= num_combos /\ rw[0].stage = "idle"
    /\ output_format = "jsonl"
    /\ LET k == midx
           r == ResumeDedup(file[k].results, combos[k].m)
       IN /\ completed_items' = IF file[k].exists
                                THEN [completed_items EXCEPT ![k] = r.completed_ids]
                                ELSE completed_items
          /\ loaded' = [loaded EXCEPT ![k] = file[k].exists]
          /\ file' = IF file[k].exists THEN file ELSE [file EXCEPT ![k] = HeaderOnly]
          /\ handle' = [handle EXCEPT ![k] = TRUE]
    /\ midx' = midx + 1
    /\ UNCHANGED <<config_vars, capacity_log, tmp, result_buffers, mpc, interrupted, cpc, tasks, rw,
                   faults, perr, failures, emitted>>

\* JSON, no existing file, or an existing file without duplicate records
LoadJson ==
    /\ mpc = "load" /\ midx <= num_combos /\ rw[0].stage = "idle"
    /\ output_format = "json"
    /\ LET k == midx
           r == ResumeDedup(file[k].results, combos[k].m)
       IN /\ ~file[k].exists \/ r.removed_duplicate_count = 0
          /\ completed_items' = IF file[k].exists
                                THEN [completed_items EXCEPT ![k] = r.completed_ids]
                                ELSE completed_items
          /\ loaded' = [loaded EXCEPT ![k] = file[k].exists]
    /\ midx' = midx + 1
    /\ UNCHANGED <<config_vars, capacity_log, file, tmp, handle, result_buffers, mpc, interrupted, cpc,
                   tasks, rw, faults, perr, failures, emitted>>

\* JSON, duplicates found: data["results"] = cleaned_items is written back
LoadJsonRewrite ==
    /\ mpc = "load" /\ midx <= num_combos /\ rw[0].stage = "idle"
    /\ output_format = "json"
    /\ LET k == midx
           r == ResumeDedup(file[k].results, combos[k].m)
       IN /\ file[k].exists /\ r.removed_duplicate_count > 0
          /\ OpenTmp(0, k,
                     IF Len(r.cleaned_items) = 0 /\ Len(file[k].results) > 0
                     THEN file[k].results ELSE r.cleaned_items,
                     "resume", r.completed_ids)
    /\ UNCHANGED <<config_vars, capacity_log, file, handle, completed_items, loaded, result_buffers,
                   mpc, midx, interrupted, cpc, tasks, faults, perr, failures, emitted>>

\* main.py 474-525, 607-610: the worker budget is shared out and reported,
\* the outer pool is created and every combination submitted
StartPools ==
    /\ mpc = "load" /\ midx > num_combos
    /\ mpc' = "run"
    /\ capacity_log' = CapacityReport(workers, num_combos)
    /\ cpc' = [k \in K |-> "pending"]
    /\ UNCHANGED <<config_vars, file, tmp, handle, completed_items, loaded,
                   result_buffers, midx, interrupted, tasks, rw, faults, perr, failures,
                   emitted>>

(* ------------------------------------------------------------------ *)
(* main.py 530-605: process_combo                                       *)
(* ------------------------------------------------------------------ *)
Active(k) == cpc[k] \in {"collect", "batchflush", "finally"}

\* a submit loop without the completed_items check (534-535)
DispatchAll(its, done) == its

\* the ids process_combo submits: every item not in completed_items[key]
Dispatch(its, done) == SelectSeq(its, LAMBDA id : id \notin done)

\* an outer worker takes the combination; the submit loop runs (536-547)
ComboStart(k) ==
    /\ Alive
    /\ cpc[k] = "pending"
    /\ \A j \in K : j < k => cpc[j] # "pending"
    /\ Cardinality({j \in K : Active(j)}) < ComboWorkers(workers, num_combos)
    /\ cpc' = [cpc EXCEPT ![k] = "collect"]
    /\ tasks' = [tasks EXCEPT ![k] =
                    LET d == Dispatch(items, completed_items[k])
                    IN [i \in 1..Len(d) |-> [id |-> d[i], st |-> "queued", q_type |-> "",
                                            opts |-> "none", input |-> "valid",
                                            outs |-> <<>>, res |-> "unset", ev |-> NoEval,
                                            ex |-> NoExtract]]]
    /\ UNCHANGED <<config_vars, capacity_log, file, tmp, handle, completed_items, loaded,
                   result_buffers, mpc, midx, interrupted, rw, faults, perr, failures,
                   emitted>>

\* an inner worker takes the next queued future
TaskStart(k, i) ==
    /\ Alive
    /\ i \in 1..Len(tasks[k])
    /\ tasks[k][i].st = "queued"
    /\ \A j \in 1..(i - 1) : tasks[k][j].st # "queued"
    /\ Cardinality({j \in 1..Len(tasks[k]) : tasks[k][j].st = "running"})
          < ActualPerCombo(workers, num_combos)
    /\ tasks' = [tasks EXCEPT ![k][i].st = "running"]
    /\ UNCHANGED <<config_vars, capacity_log, file, tmp, handle, completed_items, loaded,
                   result_buffers, mpc, midx, interrupted, cpc, rw, faults, perr,
                   failures, emitted>>

\* evaluate_single_item returns or raises
TaskFinish(k, i) ==
    /\ Alive
    /\ i \in 1..Len(tasks[k])
    /\ tasks[k][i].st = "running"
    /\ tasks' = [tasks EXCEPT ![k][i].st = "finished"]
    /\ UNCHANGED <<config_vars, capacity_log, file, tmp, handle, completed_items, loaded,
                   result_buffers, mpc, midx, interrupted, cpc, rw, faults, perr,
                   failures, emitted>>

\* evaluate_single_item ends with the given input state and round outcomes
Evaluate(k, i, input, outs) ==
    /\ Alive
    /\ i \in 1..Len(tasks[k])
    /\ tasks[k][i].st = "running"
    /\ outs \in ItemOutcomes(tasks[k][i].id)
    /\ tasks' = [tasks EXCEPT ![k][i] =
                    [@ EXCEPT !.st = "finished", !.input = input,
                              !.outs = IF input = "valid" THEN outs ELSE <<>>,
                              !.res = EvaluateSingleItem(input, outs)]]
    /\ UNCHANGED <<config_vars, capacity_log, file, tmp, handle, completed_items, loaded,
                   result_buffers, mpc, midx, interrupted, cpc, rw, faults, perr,
                   failures, emitted>>

\* evaluate_single_item over an item of the given type and options whose
\* rounds, when they are reached, are all judged correct
EvaluateItem(k, i, q_type, opts) ==
    /\ Alive
    /\ i \in 1..Len(tasks[k])
    /\ tasks[k][i].st = "running"
    /\ LET multi == IsMultiRound(tasks[k][i].id)
           input == CheckOptions(multi, q_type, opts)
           outs  == IF multi THEN [j \in 1..Len(Rounds) |-> "T"] ELSE <<"T">>
       IN tasks' = [tasks EXCEPT ![k][i] =
                       [@ EXCEPT !.st = "finished", !.q_type = q_type, !.opts = opts,
                                 !.input = input,
                                 !.outs = IF input = "valid" THEN outs ELSE <<>>,
                                 !.res = EvaluateSingleItem(input, outs)]]
    /\ UNCHANGED <<config_vars, capacity_log, file, tmp, handle, completed_items, loaded,
                   result_buffers, mpc, midx, interrupted, cpc, rw, faults, perr,
                   failures, emitted>>

Collectable(k, i) ==
    /\ Alive
    /\ cpc[k] = "collect"
    /\ i \in 1..Len(tasks[k])
    /\ tasks[k][i].st = "finished"

\* a collect loop that a failed task ends
CollectFailureAbort(k, i) ==
    /\ Collectable(k, i)
    /\ tasks' = [tasks EXCEPT ![k][i].st = "collected"]
    /\ failures' = failures \cup {<<k, tasks[k][i].id>>}
    /\ cpc' = [cpc EXCEPT ![k] = "finally"]
    /\ UNCHANGED <<config_vars, capacity_log, file, tmp, handle, completed_items, loaded,
                   result_buffers, mpc, midx, interrupted, rw, faults, perr,
                   emitted>>

\* 556-567: the future raised, returned None or returned an error dict
CollectFailure(k, i) ==
    /\ Collectable(k, i)
    /\ tasks' = [tasks EXCEPT ![k][i].st = "collected"]
    /\ failures' = failures \cup {<<k, tasks[k][i].id>>}
    /\ UNCHANGED <<config_vars, capacity_log, file, tmp, handle, completed_items, loaded,
                   result_buffers, mpc, midx, interrupted, cpc, rw, faults, perr,
                   emitted>>

\* 569-585: the record is converted; an id already in completed_items is
\* dropped (577-580), a new id is added to completed_items
NewRecord(k, i) ==
    /\ Collectable(k, i)
    /\ tasks[k][i].id \notin completed_items[k]
    /\ tasks' = [tasks EXCEPT ![k][i].st = "collected"]
    /\ completed_items' = [completed_items EXCEPT ![k] = @ \cup {tasks[k][i].id}]
    /\ emitted' = [emitted EXCEPT ![k] = Append(@, tasks[k][i].id)]

AlreadyCompleted(k, i) ==
    /\ Collectable(k, i)
    /\ tasks' = [tasks EXCEPT ![k][i].st = "collected"]
    /\ UNCHANGED <<file, completed_items, emitted, result_buffers, cpc>>

\* 587-592: file_handle.write(line); file_handle.flush().  A line written after
\* an unterminated partial line is glued to it and parses as no record.
CollectJsonl(k, i, out) ==
    /\ output_format = "jsonl"
    /\ handle[k]
    /\ Collectable(k, i)
    /\ IF tasks[k][i].id \in completed_items[k]
       THEN AlreadyCompleted(k, i)
       ELSE /\ NewRecord(k, i)
            /\ file' = [file EXCEPT ![k] =
                           IF @.torn THEN [@ EXCEPT !.torn = FALSE, !.garbled = @ + 1]
                           ELSE [@ EXCEPT !.results =
                                    Append(@, ConvertToModule2(tasks[k][i].id, k, out))]]
            /\ UNCHANGED <<result_buffers, cpc>>
    /\ UNCHANGED <<config_vars, capacity_log, tmp, handle, loaded, mpc, midx,
                   interrupted, rw, faults, perr, failures>>

\* 593-594: the write raised (the handle is closed, or an I/O error that may
\* leave a partial line): the error is logged and the loop goes on
CollectJsonlFail(k, i) ==
    /\ output_format = "jsonl"
    /\ NewRecord(k, i)
    /\ \/ /\ ~handle[k]
          /\ UNCHANGED <<file, faults>>
       \/ /\ handle[k] /\ faults > 0
          /\ faults' = faults - 1
          /\ \E partial \in BOOLEAN :
                file' = [file EXCEPT ![k].torn = @ \/ partial]
    /\ perr' = [perr EXCEPT ![k] = TRUE]
    /\ UNCHANGED <<config_vars, capacity_log, tmp, handle, loaded, result_buffers, mpc, midx,
                   interrupted, cpc, rw, failures>>

\* 595-601: append to the buffer; a full buffer is flushed at once
CollectJsonItem(k, i, module2_item) ==
    /\ output_format = "json"
    /\ Collectable(k, i)
    /\ IF tasks[k][i].id \in completed_items[k]
       THEN AlreadyCompleted(k, i)
       ELSE /\ NewRecord(k, i)
            /\ result_buffers' = [result_buffers EXCEPT ![k] = Append(@, module2_item)]
            /\ cpc' = [cpc EXCEPT ![k] = IF Len(result_buffers'[k]) >= batch_size
                                         THEN "batchflush" ELSE @]
            /\ UNCHANGED file
    /\ UNCHANGED <<config_vars, capacity_log, tmp, handle, loaded, mpc, midx, interrupted, rw,
                   faults, perr, failures>>

CollectJson(k, i, out) ==
    CollectJsonItem(k, i, ConvertToModule2(tasks[k][i].id, k, out))

\* --- one evaluation of a multi-round item, step by step ---
InEval(k, i, phase) ==
    /\ Alive
    /\ i \in 1..Len(tasks[k])
    /\ tasks[k][i].st = "running"
    /\ tasks[k][i].ev.phase = phase

OnlyTasks ==
    UNCHANGED <<config_vars, capacity_log, file, tmp, handle, completed_items, loaded,
                result_buffers, mpc, midx, interrupted, cpc, rw, faults, perr,
                failures, emitted>>

\* evaluator.py 261-277: the item has n rounds and carries media or not;
\* EVAL_CONFIG holds max_retries and retry_delay
EvalStart(k, i, n, media, max_retries, retry_delay) ==
    /\ InEval(k, i, "none")
    /\ tasks' = [tasks EXCEPT ![k][i].ev =
                    [NoEval EXCEPT !.n = n, !.media = media,
                                   !.max_retries = max_retries,
                                   !.retry_delay = retry_delay,
                                   !.round = 1, !.phase = "build"]]
    /\ OnlyTasks

\* 294-369 and model_api.py 334-490: the round's messages are built and
\* call_model_api enters its retry loop
SendRound(k, i) ==
    /\ InEval(k, i, "build")
    /\ LET ev == tasks[k][i].ev
       IN tasks' = [tasks EXCEPT ![k][i].ev =
                       [ev EXCEPT !.sent = RequestMessages(ev.history, ev.round, ev.media),
                                  !.call = BeginCall(ev.max_retries),
                                  !.phase = "call"]]
    /\ OnlyTasks

AttemptOk(k, i) ==
    /\ InEval(k, i, "call")
    /\ tasks[k][i].ev.call.status = "trying"
    /\ tasks' = [tasks EXCEPT ![k][i].ev.call = AttemptReturns(@)]
    /\ OnlyTasks

AttemptFail(k, i) ==
    /\ InEval(k, i, "call")
    /\ tasks[k][i].ev.call.status = "trying"
    /\ LET ev == tasks[k][i].ev
       IN tasks' = [tasks EXCEPT ![k][i].ev.call =
                       AttemptRaises(@, ev.max_retries, ev.retry_delay)]
    /\ OnlyTasks

\* 371-508: the call returned: the history grows and the answer is judged;
\* 510-524: the call raised: the round entry carries "error"
RoundEnd(k, i, o) ==
    /\ InEval(k, i, "call")
    /\ LET ev == tasks[k][i].ev
       IN /\ \/ ev.call.status = "returned" /\ o \in JudgeOutcomes
             \/ ev.call.status = "raised" /\ o = "model_fail"
          /\ tasks' = [tasks EXCEPT ![k][i].ev =
                          [ev EXCEPT !.history = IF ev.call.status = "returned"
                                                THEN HistoryAfter(@, ev.round, ev.media)
                                                ELSE @,
                                     !.outs = Append(@, o),
                                     !.call = NoCall,
                                     !.round = @ + 1,
                                     !.phase = IF ev.round = ev.n THEN "done"
                                               ELSE "build"]]
    /\ OnlyTasks

\* --- the answer of one round or of a single-round item, from the model's
\* response to the judge call ---
InExtract(k, i, out) ==
    /\ Alive
    /\ i \in 1..Len(tasks[k])
    /\ tasks[k][i].st = "running"
    /\ tasks[k][i].ex.out = out

\* evaluator.py 365, 577: call_model_api returned a response of the set
\* `responses`; 840-841
RespondFrom(k, i, responses) ==
    /\ InExtract(k, i, "none")
    /\ \E response \in responses :
          tasks' = [tasks EXCEPT ![k][i].ex =
                       [@ EXCEPT !.round = @ + 1, !.stage = 1, !.out = "trying",
                                 !.response = response,
                                 !.original_response = StripText(response)]]
    /\ OnlyTasks

Respond(k, i) == RespondFrom(k, i, Responses)

\* extract_answer_from_response runs its next stage
TryStage(k, i) ==
    /\ InExtract(k, i, "trying")
    /\ LET ex == tasks[k][i].ex
           r  == StageResult(ex.stage, ex.original_response)
       IN tasks' = [tasks EXCEPT ![k][i].ex =
                       IF r.out = "nothing" THEN [ex EXCEPT !.stage = @ + 1]
                       ELSE [ex EXCEPT !.out = r.out, !.extracted = r.extracted,
                                       !.is_from_box = r.is_from_box]]
    /\ OnlyTasks

\* evaluator.py 447-457, 598-610: the judge is called and returns its verdict
JudgeCall(k, i) ==
    /\ InExtract(k, i, "returned")
    /\ LET ex == tasks[k][i].ex
       IN \E is_correct \in BOOLEAN :
             tasks' = [tasks EXCEPT ![k][i].ex =
                          [ex EXCEPT !.out = "judged",
                                     !.answer_for_judge =
                                         AnswerForJudge(ex.extracted, ex.is_from_box,
                                                        ex.original_response),
                                     !.is_correct = is_correct]]
    /\ OnlyTasks

\* 493-508: the result_data of a judged round, and 513-524: the entry of a
\* round that raised
RoundResult(ex, is_correct) ==
    [round |-> Rounds[ex.round], error |-> FALSE, response |-> ex.response,
     extracted |-> ex.extracted, is_correct |-> is_correct]
RoundError(ex) ==
    [round |-> Rounds[ex.round], error |-> TRUE, response |-> ex.response,
     extracted |-> <<>>, is_correct |-> FALSE]

\* evaluator.py 371-457: the extractor returned for a round of a multi-round
\* item; the round's compacted pair is appended to the conversation history
\* (376-420), then the judge is called
JudgeRound(k, i) ==
    /\ InExtract(k, i, "returned")
    /\ IsMultiRound(tasks[k][i].id)
    /\ LET ex == tasks[k][i].ex
           simplified_user_msg == [role |-> "user", round |-> ex.round, content |-> <<>>]
           assistant_msg ==
               [role |-> "assistant", round |-> ex.round,
                content |-> brief_answer_for_history(ex.extracted, ex.original_response)]
       IN \E is_correct \in BOOLEAN :
             tasks' = [tasks EXCEPT ![k][i].ex =
                          [ex EXCEPT !.out = "judged",
                                     !.answer_for_judge =
                                         AnswerForJudge(ex.extracted, ex.is_from_box,
                                                        ex.original_response),
                                     !.is_correct = is_correct,
                                     !.history = @ \o <<simplified_user_msg, assistant_msg>>,
                                     !.rounds = Append(@, RoundResult(ex, is_correct))]]
    /\ OnlyTasks

\* 279, 510-526: the round is over, judged or failed; the next round works on
\* the same conversation history.  526-560: after the last round the rounds
\* are put together as the model entry of the result.
NextRound(k, i) ==
    /\ i \in 1..Len(tasks[k])
    /\ tasks[k][i].ex.out \in {"judged", "raised"}
    /\ InExtract(k, i, tasks[k][i].ex.out)
    /\ LET ex == tasks[k][i].ex
           model_rounds == IF ex.out = "raised" THEN Append(ex.rounds, RoundError(ex))
                           ELSE ex.rounds
       IN tasks' = [tasks EXCEPT ![k][i] =
                       IF ex.round < Len(Rounds)
                       THEN [@ EXCEPT !.ex = [NoExtract EXCEPT !.round = ex.round,
                                                               !.history = ex.history,
                                                               !.rounds = model_rounds]]
                       ELSE [@ EXCEPT !.st = "finished",
                                      !.ex = [NoExtract EXCEPT !.out = "rounds",
                                                               !.history = ex.history,
                                                               !.rounds = model_rounds]]]
    /\ OnlyTasks

\* main.py 569-601 over the result of a multi-round item
CollectRounds(k, i) ==
    /\ i \in 1..Len(tasks[k])
    /\ tasks[k][i].ex.out = "rounds"
    /\ CollectJsonItem(k, i, ConvertRounds(tasks[k][i].id, k, tasks[k][i].ex.rounds))

\* the round is over, judged or failed (510-524, 650-661): the next round
\* starts or the item's evaluation ends
RoundOver(k, i) ==
    /\ i \in 1..Len(tasks[k])
    /\ tasks[k][i].ex.out \in {"judged", "raised"}
    /\ InExtract(k, i, tasks[k][i].ex.out)
    /\ LET ex == tasks[k][i].ex
           n  == IF IsMultiRound(tasks[k][i].id) THEN Len(Rounds) ELSE 1
       IN tasks' = [tasks EXCEPT ![k][i] =
                       IF ex.round < n
                       THEN [@ EXCEPT !.ex = [NoExtract EXCEPT !.round = ex.round]]
                       ELSE [@ EXCEPT !.st = "finished", !.ex = NoExtract]]
    /\ OnlyTasks

\* the collect loop over the result the task's evaluation produced
HasResult(k, i) == i \in 1..Len(tasks[k]) /\ tasks[k][i].res # "unset"

CollectFailed(k, i) ==
    /\ HasResult(k, i)
    /\ tasks[k][i].res \in FailedResults
    /\ CollectFailure(k, i)

CollectRecordJson(k, i) ==
    /\ HasResult(k, i)
    /\ tasks[k][i].res \notin FailedResults
    /\ CollectJson(k, i, tasks[k][i].res)

\* evaluator.py 634-661, 663-684: eval_single_model returns the result_data
\* of the judged answer, or the error entry, and evaluate_single_item returns
ReturnSingle(k, i) ==
    /\ i \in 1..Len(tasks[k])
    /\ ~IsMultiRound(tasks[k][i].id)
    /\ tasks[k][i].ex.out \in {"judged", "raised"}
    /\ InExtract(k, i, tasks[k][i].ex.out)
    /\ tasks' = [tasks EXCEPT ![k][i] =
                    [@ EXCEPT !.st = "finished",
                              !.ex.out = IF @ = "judged" THEN "result" ELSE "error"]]
    /\ OnlyTasks

\* main.py 569-601 over the result ReturnSingle left
CollectExtracted(k, i) ==
    /\ i \in 1..Len(tasks[k])
    /\ tasks[k][i].ex.out \in {"result", "error"}
    /\ CollectJsonItem(k, i, ConvertSingle(tasks[k][i].id, k, tasks[k][i].ex))

\* the as_completed loop is over and the inner pool is shut down (602-605)
CollectDone(k) ==
    /\ Alive
    /\ cpc[k] = "collect"
    /\ \A i \in 1..Len(tasks[k]) : tasks[k][i].st = "collected"
    /\ cpc' = [cpc EXCEPT ![k] = IF output_format = "json" THEN "finally" ELSE "done"]
    /\ UNCHANGED <<config_vars, capacity_log, file, tmp, handle, completed_items, loaded,
                   result_buffers, mpc, midx, interrupted, tasks, rw, faults, perr,
                   failures, emitted>>

(* ------------------------------------------------------------------ *)
(* result_converter.py 230-302: flush_json_buffer                       *)
(* ------------------------------------------------------------------ *)
\* thread t is at a call of flush_json_buffer for key k
AtFlush(t, k) ==
    /\ Alive
    /\ rw[t].stage = "idle"
    /\ IF t = 0 THEN mpc = "flush" /\ midx = k
       ELSE t = k /\ cpc[k] \in {"batchflush", "finally"}

\* 248-253: nothing buffered
FlushEmpty(t, k) ==
    /\ AtFlush(t, k)
    /\ result_buffers[k] = <<>>
    /\ AfterRewrite(t)
    /\ UNCHANGED <<config_vars, capacity_log, file, tmp, handle, completed_items, loaded,
                   result_buffers, interrupted, tasks, rw, faults, perr, failures,
                   emitted>>

\* 257-262, 301-302: json.load of the existing artifact raised
FlushUnreadable(t, k) ==
    /\ AtFlush(t, k)
    /\ result_buffers[k] # <<>>
    /\ file[k].exists /\ file[k].torn
    /\ perr' = [perr EXCEPT ![k] = TRUE]
    /\ AfterRewrite(t)
    /\ UNCHANGED <<config_vars, capacity_log, file, tmp, handle, completed_items, loaded,
                   result_buffers, interrupted, tasks, rw, faults, failures, emitted>>

\* a flush that dumps the merged results straight into the artifact
FlushInPlace(t, k) ==
    /\ AtFlush(t, k)
    /\ result_buffers[k] # <<>>
    /\ ~(file[k].exists /\ file[k].torn)
    /\ file' = [file EXCEPT ![k] =
                   [exists |-> TRUE, results |-> file[k].results \o result_buffers[k],
                    torn |-> FALSE, garbled |-> 0,
                    statistics |-> Stats(file[k].results \o result_buffers[k])]]
    /\ result_buffers' = [result_buffers EXCEPT ![k] = <<>>]
    /\ AfterRewrite(t)
    /\ UNCHANGED <<config_vars, capacity_log, tmp, handle, completed_items, loaded, interrupted,
                   tasks, rw, faults, perr, failures, emitted>>

\* 257-287: existing results + buffered results, statistics, temp file opened
FlushBegin(t, k) ==
    /\ AtFlush(t, k)
    /\ result_buffers[k] # <<>>
    /\ ~(file[k].exists /\ file[k].torn)
    /\ OpenTmp(t, k, file[k].results \o result_buffers[k], "flush", {})
    /\ UNCHANGED <<config_vars, capacity_log, file, handle, completed_items, loaded, result_buffers,
                   mpc, midx, interrupted, cpc, tasks, faults, perr, failures, emitted>>

(* ------------------------------------------------------------------ *)
(* main.py 607-737: waiting for the pools, interrupt, finalization      *)
(* ------------------------------------------------------------------ *)
AllCombosOver == \A k \in K : cpc[k] \in {"done", "cancelled"}

\* every combination future completed (611-616)
PoolsDone ==
    /\ mpc = "run" /\ AllCombosOver
    /\ mpc' = "close"
    /\ UNCHANGED <<config_vars, capacity_log, file, tmp, handle, completed_items, loaded,
                   result_buffers, midx, interrupted, cpc, tasks, rw, faults, perr,
                   failures, emitted>>

\* KeyboardInterrupt inside the with block: the executor's __exit__ runs
\* shutdown(wait=True) before the except clause is reached
Interrupt ==
    /\ mpc = "run"
    /\ mpc' = "joining"
    /\ UNCHANGED <<config_vars, capacity_log, file, tmp, handle, completed_items, loaded,
                   result_buffers, midx, interrupted, cpc, tasks, rw, faults, perr,
                   failures, emitted>>

\* the join ended: except KeyboardInterrupt (617-623)
JoinDone ==
    /\ mpc = "joining" /\ AllCombosOver
    /\ mpc' = "close"
    /\ interrupted' = TRUE
    /\ UNCHANGED <<config_vars, capacity_log, file, tmp, handle, completed_items, loaded,
                   result_buffers, midx, cpc, tasks, rw, faults, perr, failures,
                   emitted>>

\* a second KeyboardInterrupt ends the join: the except clause runs while the
\* workers run; shutdown(wait=False, cancel_futures=True) cancels what is queued
InterruptJoin ==
    /\ mpc = "joining"
    /\ Len(items) <= MaxRaceItems /\ workers <= MaxRaceWorkers
    /\ mpc' = "close"
    /\ interrupted' = TRUE
    /\ cpc' = [k \in K |-> IF cpc[k] = "pending" THEN "cancelled" ELSE cpc[k]]
    /\ UNCHANGED <<config_vars, capacity_log, file, tmp, handle, completed_items, loaded,
                   result_buffers, midx, tasks, rw, faults, perr, failures, emitted>>

\* 625-631: the JSONL handles are closed; 633-638: or the final flush starts
CloseHandles ==
    /\ mpc = "close"
    /\ handle' = [k \in K |-> FALSE]
    /\ mpc' = IF output_format = "json" THEN "flush" ELSE "stats"
    /\ midx' = 1
    /\ UNCHANGED <<config_vars, capacity_log, file, tmp, completed_items, loaded, result_buffers,
                   interrupted, cpc, tasks, rw, faults, perr, failures, emitted>>

FlushLoopDone ==
    /\ mpc = "flush" /\ midx > num_combos /\ rw[0].stage = "idle"
    /\ mpc' = "stats"
    /\ midx' = 1
    /\ UNCHANGED <<config_vars, capacity_log, file, tmp, handle, completed_items, loaded,
                   result_buffers, interrupted, cpc, tasks, rw, faults, perr, failures,
                   emitted>>

AtStats(k) == mpc = "stats" /\ midx = k /\ k <= num_combos /\ rw[0].stage = "idle"

\* 648-707 (JSONL) and 709-729 (JSON): statistics recomputed from the file
FinalBegin(k) ==
    /\ AtStats(k)
    /\ file[k].exists
    /\ output_format = "json" => ~file[k].torn
    /\ OpenTmp(0, k, file[k].results, "final", {})
    /\ UNCHANGED <<config_vars, capacity_log, file, handle, completed_items, loaded, result_buffers,
                   mpc, midx, interrupted, cpc, tasks, faults, perr, failures, emitted>>

\* 682-688: nothing parsed from a file larger than 1 KB: the rewrite is skipped
\* (a file that holds only a header line is smaller; with lines that do not
\* parse it is of either size)
FinalGuard(k) ==
    /\ AtStats(k)
    /\ output_format = "jsonl"
    /\ file[k].exists /\ file[k].results = <<>>
    /\ file[k].torn \/ file[k].garbled > 0
    /\ midx' = midx + 1
    /\ UNCHANGED <<config_vars, capacity_log, file, tmp, handle, completed_items, loaded,
                   result_buffers, mpc, interrupted, cpc, tasks, rw, faults, perr,
                   failures, emitted>>

\* 730-731: the artifact is missing or json.load raised
FinalUnreadable(k) ==
    /\ AtStats(k)
    /\ ~file[k].exists \/ (output_format = "json" /\ file[k].torn)
    /\ perr' = [perr EXCEPT ![k] = TRUE]
    /\ midx' = midx + 1
    /\ UNCHANGED <<config_vars, capacity_log, file, tmp, handle, completed_items, loaded,
                   result_buffers, mpc, interrupted, cpc, tasks, rw, faults, failures,
                   emitted>>

\* 733-737: os._exit(0) after an interrupt; otherwise main returns
Exit ==
    /\ mpc = "stats" /\ midx > num_combos /\ rw[0].stage = "idle"
    /\ mpc' = "exited"
    /\ UNCHANGED <<config_vars, capacity_log, file, tmp, handle, completed_items, loaded,
                   result_buffers, midx, interrupted, cpc, tasks, rw, faults, perr,
                   failures, emitted>>

Next ==
    \/ LoadJsonl \/ LoadJson \/ LoadJsonRewrite \/ StartPools
    \/ \E t \in 0..num_combos :
          WriteTmpOk(t) \/ WriteTmpFail(t) \/ ReplaceTmp(t) \/ ClearBuffer(t)
    \/ \E k \in K : ComboStart(k) \/ CollectDone(k)
    \/ \E k \in K, i \in 1..MaxItems :
          \/ TaskStart(k, i) \/ TaskFinish(k, i)
          \/ CollectFailure(k, i) \/ CollectJsonlFail(k, i)
          \/ \E out \in RecordOutcomes : CollectJsonl(k, i, out) \/ CollectJson(k, i, out)
    \/ \E t \in 0..num_combos, k \in K :
          FlushEmpty(t, k) \/ FlushUnreadable(t, k) \/ FlushBegin(t, k)
    \/ PoolsDone \/ Interrupt \/ JoinDone \/ InterruptJoin
    \/ CloseHandles \/ FlushLoopDone
    \/ \E k \in K : FinalBegin(k) \/ FinalGuard(k) \/ FinalUnreadable(k)
    \/ Exit

Spec == Init /\ [][Next]_vars

SpecBatch == InitBatch /\ [][Next]_vars

\* the load of every combination and the submit loop of process_combo
NextResume ==
    \/ LoadJsonl \/ LoadJson \/ LoadJsonRewrite \/ StartPools
    \/ WriteTmpOk(0) \/ WriteTmpFail(0) \/ ReplaceTmp(0)
    \/ \E k \in K : ComboStart(k)

SpecResume == InitResume /\ [][NextResume]_vars

SpecStats == InitStats /\ [][NextResume]_vars

\* the steps of a JSON run without interrupt and without I/O fault, but for
\* the end of a task's evaluation
RunSteps ==
    \/ LoadJson \/ StartPools
    \/ \E t \in 0..num_combos : WriteTmpOk(t) \/ ReplaceTmp(t) \/ ClearBuffer(t)
    \/ \E k \in K : ComboStart(k) \/ CollectDone(k)
    \/ \E k \in K, i \in 1..MaxItems :
          TaskStart(k, i) \/ CollectFailed(k, i) \/ CollectRecordJson(k, i)
    \/ \E t \in 0..num_combos, k \in K : FlushEmpty(t, k) \/ FlushBegin(t, k)
    \/ PoolsDone \/ CloseHandles \/ FlushLoopDone
    \/ \E k \in K : FinalBegin(k) \/ FinalUnreadable(k)
    \/ Exit

\* every task ends in one of the ways evaluate_single_item returns: an error
\* result for an input error or a missing media file, or a result whose
\* rounds were judged or failed
NextTasks ==
    \/ RunSteps
    \/ \E k \in K, i \in 1..MaxItems :
          \E input \in {"no_options", "no_media", "valid"},
             outs \in SeqsUpTo(RoundOutcomes, Len(Rounds)) :
                Evaluate(k, i, input, outs)

SpecTasks == InitTasks /\ [][NextTasks]_vars

\* the evaluation of a multi-round item of 2..MaxTurns rounds, with or
\* without media, step by step up to the end of its last round
NextCall ==
    \/ LoadJson \/ StartPools
    \/ \E k \in K : ComboStart(k)
    \/ \E k \in K, i \in 1..MaxItems :
          \/ TaskStart(k, i)
          \/ \E n \in 2..MaxTurns, media \in BOOLEAN,
                max_retries \in 0..MaxRetries, retry_delay \in 1..MaxDelay :
                EvalStart(k, i, n, media, max_retries, retry_delay)
          \/ SendRound(k, i) \/ AttemptOk(k, i) \/ AttemptFail(k, i)
          \/ \E o \in RoundOutcomes : RoundEnd(k, i, o)

SpecCall == InitCall /\ [][NextCall]_vars

\* every task ends in one of the ways the collect loop tells apart: the call
\* raised, returned nothing, returned an error result, or returned a result
NextIsolation ==
    \/ RunSteps
    \/ \E k \in K, i \in 1..MaxItems :
          \E input \in InputStates, outs \in {<<"T">>, <<"T", "T">>} :
                Evaluate(k, i, input, outs)

\* every thread of the run keeps running: no step that can be taken is
\* postponed for ever
SpecIsolation == InitTasks /\ [][NextIsolation]_vars /\ WF_vars(NextIsolation)

\* the tasks of the first combination over items of every question type and
\* every shape of options, up to the collect loop
NextInput ==
    \/ LoadJson \/ StartPools
    \/ \E k \in K : ComboStart(k)
    \/ \E k \in K, i \in 1..MaxItems :
          \/ TaskStart(k, i) \/ CollectFailed(k, i) \/ CollectRecordJson(k, i)
          \/ \E q_type \in QuestionTypes, opts \in OptionShapes :
                EvaluateItem(k, i, q_type, opts)

SpecInput == InitTasks /\ [][NextInput]_vars

\* the tasks of the first combination, every round of which draws a response
\* that goes through the extraction chain to the judge call
NextExtract ==
    \/ LoadJson \/ StartPools
    \/ \E k \in K : ComboStart(k)
    \/ \E k \in K, i \in 1..MaxItems :
          \/ TaskStart(k, i)
          \/ Respond(k, i) \/ TryStage(k, i) \/ JudgeCall(k, i) \/ RoundOver(k, i)

SpecExtract == InitExtract /\ [][NextExtract]_vars

\* the rounds of the multi-round item with the conversation history they
\* leave to the next round
NextHistory ==
    \/ LoadJson \/ StartPools
    \/ \E k \in K : ComboStart(k)
    \/ \E k \in K, i \in 1..MaxItems :
          \/ TaskStart(k, i)
          \/ RespondFrom(k, i, HistoryResponses) \/ TryStage(k, i)
          \/ JudgeRound(k, i) \/ NextRound(k, i)

SpecHistory == InitHistory /\ [][NextHistory]_vars

\* a JSON run over the multi-round item from the responses of its rounds to
\* the record in the artifact
NextRounds ==
    \/ LoadJson \/ StartPools
    \/ \E t \in 0..num_combos : WriteTmpOk(t) \/ ReplaceTmp(t) \/ ClearBuffer(t)
    \/ \E k \in K : ComboStart(k) \/ CollectDone(k)
    \/ \E k \in K, i \in 1..MaxItems :
          \/ TaskStart(k, i)
          \/ RespondFrom(k, i, RoundResponses) \/ TryStage(k, i)
          \/ JudgeRound(k, i) \/ NextRound(k, i) \/ CollectRounds(k, i)
    \/ \E t \in 0..num_combos, k \in K : FlushEmpty(t, k) \/ FlushBegin(t, k)
    \/ PoolsDone \/ CloseHandles \/ FlushLoopDone
    \/ \E k \in K : FinalBegin(k)
    \/ Exit

SpecRounds == InitHistory /\ [][NextRounds]_vars

\* the extraction of responses without marker or object, short and long
NextWindow ==
    \/ LoadJson \/ StartPools
    \/ \E k \in K : ComboStart(k)
    \/ \E k \in K, i \in 1..MaxItems :
          \/ TaskStart(k, i)
          \/ RespondFrom(k, i, WindowResponses) \/ TryStage(k, i)
          \/ JudgeCall(k, i) \/ RoundOver(k, i)

SpecWindow == InitWindow /\ [][NextWindow]_vars

\* a JSONL run resumed over artifacts whose last line is partial
NextKilled ==
    \/ LoadJsonl \/ StartPools
    \/ \E t \in 0..num_combos : WriteTmpOk(t) \/ WriteTmpFail(t) \/ ReplaceTmp(t)
    \/ \E k \in K : ComboStart(k) \/ CollectDone(k)
    \/ \E k \in K, i \in 1..MaxItems :
          \/ TaskStart(k, i) \/ TaskFinish(k, i)
          \/ CollectFailure(k, i) \/ CollectJsonlFail(k, i)
          \/ \E out \in RecordOutcomes : CollectJsonl(k, i, out)
    \/ PoolsDone \/ CloseHandles
    \/ \E k \in K : FinalBegin(k) \/ FinalGuard(k)
    \/ Exit

SpecKilled == InitKilled /\ [][NextKilled]_vars

\* a JSON run over one single-round item from the model's response to the
\* statistics of the artifact
NextScenario ==
    \/ LoadJson \/ StartPools
    \/ \E t \in 0..num_combos : WriteTmpOk(t) \/ ReplaceTmp(t) \/ ClearBuffer(t)
    \/ \E k \in K : ComboStart(k) \/ CollectDone(k)
    \/ \E k \in K, i \in 1..MaxItems :
          \/ TaskStart(k, i)
          \/ RespondFrom(k, i, ScenarioResponses) \/ TryStage(k, i) \/ JudgeCall(k, i)
          \/ ReturnSingle(k, i) \/ CollectExtracted(k, i)
    \/ \E t \in 0..num_combos, k \in K : FlushEmpty(t, k) \/ FlushBegin(t, k)
    \/ PoolsDone \/ CloseHandles \/ FlushLoopDone
    \/ \E k \in K : FinalBegin(k)
    \/ Exit

SpecScenario == InitScenario /\ [][NextScenario]_vars

(* ================================================================== *)
(* Properties                                                           *)
(* ================================================================== *)
\* process_combo(k) has run its submit loop
Submitted(k) == cpc[k] \in {"collect", "batchflush", "finally", "done"}

TaskIds(k) == {tasks[k][i].id : i \in 1..Len(tasks[k])}

StoredOf(results, id) == SelectSeq(results, LAMBDA r : r.question_id = id)
StoredWithout(results, id) == SelectSeq(results, LAMBDA r : r.question_id # id)

\* the stored records of id whose answer is_answer_empty finds non-empty
NonEmptyOf(results, id, model_name) ==
    SelectSeq(results, LAMBDA r : r.question_id = id
                                  /\ ~IsAnswerEmpty(r, NoneV, model_name))

HasAuthoritative(results, id, model_name) == NonEmptyOf(results, id, model_name) # <<>>

\* C1 (SpecResume): once a combination whose artifact was loaded for resume has
\* run its submit loop, no task exists for a question id that has a non-empty
\* record in the artifact as the run found it, and a task exists for every
\* input id that is missing from the artifact or has only empty records.
C1_ResumeDispatch ==
    \A k \in K :
        (Submitted(k) /\ loaded[k]) =>
            /\ \A id \in TaskIds(k) :
                   ~HasAuthoritative(file0[k].results, id, combos[k].m)
            /\ \A id \in Range(raw_items) :
                   ~HasAuthoritative(file0[k].results, id, combos[k].m)
                       => id \in TaskIds(k)

\* a resumed combination that skipped an id with a judged record and
\* dispatched an id all of whose stored records are empty
C1_Witness ==
    \E k \in K :
        /\ Submitted(k) /\ loaded[k]
        /\ \E id \in Range(raw_items) :
               HasAuthoritative(file0[k].results, id, combos[k].m) /\ id \notin TaskIds(k)
        /\ \E id \in TaskIds(k) : StoredOf(file0[k].results, id) # <<>>

\* the denominators of a statistics header
Denominators(st) ==
    [total |-> st.total[1],
     by_model |-> [m \in Range(enabled_models) |-> st.by_model[m][1]],
     by_profile |-> [p \in Range(profiles) |->
                        IF p \in DOMAIN st.by_profile THEN st.by_profile[p][1] ELSE 0]]

\* the record of id the resume load keeps, and the one scoring keeps
ResumeRecordOf(results, id, model_name) ==
    StoredOf(ResumeDedup(results, model_name).cleaned_items, id)
ScoringRecordOf(results, id) ==
    StoredOf(DeduplicateResults(results, enabled_models), id)

\* C2 (SpecResume): for every stored sequence and every id, the resume load and
\* scoring both keep the first stored record of the id with a non-empty
\* answer; an id with only empty records is not in the completed set and
\* adds nothing to the total, per-model and per-persona denominators.
C2_AuthoritativeRecord ==
    \A k \in K : \A id \in Ids :
        LET rs == file0[k].results
            m  == combos[k].m
            ne == NonEmptyOf(rs, id, m)
        IN /\ (id \in ResumeDedup(rs, m).completed_ids) <=> (ne # <<>>)
           /\ ne # <<>> => /\ ResumeRecordOf(rs, id, m) = <<ne[1]>>
                           /\ ScoringRecordOf(rs, id) = <<ne[1]>>
           /\ ne = <<>> =>
                  Denominators(CalculateOutputStatistics(rs, enabled_models,
                                                         count_by_rounds))
                  = Denominators(CalculateOutputStatistics(StoredWithout(rs, id),
                                                           enabled_models,
                                                           count_by_rounds))

\* C3 (Spec): in no step does the number of records stored in an artifact
\* decrease.
C3_NeverTruncated ==
    [][\A k \in K : Len(file'[k].results) >= Len(file[k].results)]_vars

\* the step replaces artifact k by the content of its temporary sibling path
ViaReplace(k) ==
    /\ tmp[k].exists /\ ~tmp'[k].exists
    /\ file'[k].exists
    /\ file'[k].results = tmp[k].results
    /\ file'[k].statistics = tmp[k].statistics

\* the step creates the header line of a new JSONL artifact, or writes at the
\* end of a JSONL artifact through the append handle
InPlaceJsonl(k) ==
    /\ output_format = "jsonl"
    /\ \/ ~file[k].exists /\ file'[k] = HeaderOnly
       \/ /\ file[k].exists /\ file'[k].exists
          /\ file'[k].statistics = file[k].statistics
          /\ \/ file'[k].results = file[k].results
             \/ /\ Len(file'[k].results) = Len(file[k].results) + 1
                /\ SubSeq(file'[k].results, 1, Len(file[k].results)) = file[k].results

C5_TmpFailureLeavesTarget ==
    [][\A t \in 0..num_combos :
          (rw[t].stage = "opened" /\ rw'[t].stage = "idle")
              => (file' = file /\ ~tmp'[rw[t].k].exists)]_vars

\* a flush whose temporary write failed: error logged, artifact as the load
\* left it, the records still buffered
C5_Witness ==
    /\ output_format = "json" /\ faults < MaxFaults
    /\ \E k \in K : /\ perr[k] /\ result_buffers[k] # <<>>
                    /\ file[k] = file0[k]

\* C6 (Spec): in the step that hands a new record to persistence, the record
\* reaches the artifact or the buffer of its combination.
C6_PendingKept ==
    [][\A k \in K :
          Len(emitted'[k]) > Len(emitted[k])
              => \/ Len(file'[k].results) > Len(file[k].results)
                 \/ Len(result_buffers'[k]) > Len(result_buffers[k])]_vars

\* C7 (Spec): when the process has exited, every result buffer is empty.
C7_ShutdownFlush ==
    mpc = "exited" => \A k \in K : result_buffers[k] = <<>>

\* the Task Executor calls in progress
Running ==
    {ki \in K \X (1..MaxItems) :
        ki[2] <= Len(tasks[ki[1]]) /\ tasks[ki[1]][ki[2]].st = "running"}

\* C8 (Spec): at every moment at most `workers` Task Executor calls run, and
\* for every number of combinations up to MaxCombos the outer pool size times
\* the inner pool size is at most `workers`.
C8_WorkerBound ==
    /\ Cardinality(Running) <= workers
    /\ \A c \in 1..MaxCombos :
           ComboWorkers(workers, c) * ActualPerCombo(workers, c) <= workers

\* the whole budget in use: every combination active, each with more than
\* one call in progress
C8_Witness ==
    /\ Cardinality(Running) = workers
    /\ \A k \in K : Cardinality({ki \in Running : ki[1] = k}) > 1

\* C9 (Spec): no two threads are inside a flush or rewrite of the same
\* artifact at the same time.
C9_MutualExclusion ==
    \A t, u \in 0..num_combos :
        (t # u /\ rw[t].stage # "idle" /\ rw[u].stage # "idle") => rw[t].k # rw[u].k

\* C10 (Spec): the tasks of a combination have distinct question ids, each id
\* is handed to persistence at most once, and the artifact gains at most one
\* record per question id during the run.
C10_ExactlyOnce ==
    \A k \in K :
        /\ \A i, j \in 1..Len(tasks[k]) : i # j => tasks[k][i].id # tasks[k][j].id
        /\ \A i, j \in 1..Len(emitted[k]) : i # j => emitted[k][i] # emitted[k][j]
        /\ \A id \in Ids :
               Len(StoredOf(file[k].results, id))
                   <= Len(StoredOf(file0[k].results, id)) + 1

(* ------------------------------------------------------------------ *)
(* Scoring units                                                        *)
(* ------------------------------------------------------------------ *)
\* an answer value that is null, blank or of whitespace only, or a per-round
\* entry that is missing
UnitEmpty(v) == v = Missing \/ v = NoneV \/ Strip(v) = ""

\* the rounds of a multi-round record that carry an answer
AnsweredRounds(item) == {x \in RoundSet : ~UnitEmpty(item.answer.r[x])}

\* <<units, units with a true verdict>> a record can contribute at most: in
\* per-round mode a unit is a round, in whole-item mode the record, which is
\* empty when no round carries an answer
NonEmptyUnits(item, by_rounds) ==
    IF item.answer.dict
    THEN IF by_rounds
         THEN <<Cardinality(AnsweredRounds(item)),
                Cardinality({x \in AnsweredRounds(item) : GtTrue(item.match_gt.r[x])})>>
         ELSE IF AnsweredRounds(item) = {} THEN Pair0 ELSE <<1, 1>>
    ELSE IF UnitEmpty(item.answer.s) THEN Pair0
         ELSE <<1, IF item.match_gt.b THEN 1 ELSE 0>>

RECURSIVE SumUnits(_, _, _)
SumUnits(its, i, by_rounds) ==
    IF i > Len(its) THEN Pair0
    ELSE PairAdd(NonEmptyUnits(its[i], by_rounds), SumUnits(its, i + 1, by_rounds))

PairLeq(a, b) == a[1] <= b[1] /\ a[2] <= b[2]

Scenarios == {Scenario(id) : id \in Ids}

PairSub(a, b) == <<a[1] - b[1], a[2] - b[2]>>
StatAt(f, key) == IF key \in DOMAIN f THEN f[key] ELSE Pair0

\* what the records of id add to every statistic computed over results
Contribution(results, id, by_rounds) ==
    LET a == CalculateOutputStatistics(results, enabled_models, by_rounds)
        b == CalculateOutputStatistics(StoredWithout(results, id), enabled_models,
                                       by_rounds)
    IN [total |-> PairSub(a.total, b.total),
        by_model |-> [m \in Range(enabled_models) |->
                         PairSub(StatAt(a.by_model, m), StatAt(b.by_model, m))],
        by_profile |-> [p \in Range(profiles) |->
                         PairSub(StatAt(a.by_profile, p), StatAt(b.by_profile, p))],
        by_category |-> [c \in Scenarios |->
                         PairSub(StatAt(a.by_category, c), StatAt(b.by_category, c))]]

\* the contribution of record r when it adds `unit` to the total and to the
\* entries of its model, its persona and its tag
UnitContribution(r, unit) ==
    [total |-> unit,
     by_model |-> [m \in Range(enabled_models) |->
                      IF m = r.model_name THEN unit ELSE Pair0],
     by_profile |-> [p \in Range(profiles) |-> IF p = r.profile THEN unit ELSE Pair0],
     by_category |-> [c \in Scenarios |-> IF c = r.scenario THEN unit ELSE Pair0]]

TrueRounds(r) == {x \in AnsweredRounds(r) : r.match_gt.r[x] = "T"}

\* every round of the record carries an answer
FullyAnswered(r) ==
    /\ r.answer.dict
    /\ AnsweredRounds(r) # {}
    /\ AnsweredRounds(r) = DictKeys(r.match_gt)

\* C13 (SpecStats): the multi-round record scoring keeps for an id contributes,
\* to the total and to the entries of its model, persona and tag: in per-round
\* mode one unit per answered round, each correct iff its own verdict is true;
\* in whole-item mode, when all of its n rounds are answered, exactly one unit,
\* correct iff all n verdicts are true.
C13_RoundAggregation ==
    \A k \in K : \A id \in Ids :
        LET rs == file0[k].results
            d  == ScoringRecordOf(rs, id)
            r  == d[1]
        IN (d # <<>> /\ r.answer.dict) =>
              /\ count_by_rounds =>
                    Contribution(rs, id, TRUE)
                    = UnitContribution(r, <<Cardinality(AnsweredRounds(r)),
                                            Cardinality(TrueRounds(r))>>)
              /\ (~count_by_rounds /\ FullyAnswered(r)) =>
                    Contribution(rs, id, FALSE)
                    = UnitContribution(r, <<1, IF TrueRounds(r) = AnsweredRounds(r)
                                               THEN 1 ELSE 0>>)

\* whole-item mode over a loaded artifact whose scoring set holds a record
\* with two answered rounds, one verdict true and one false
C13_Witness ==
    \E k \in K : \E id \in Ids :
        LET d == ScoringRecordOf(file0[k].results, id)
        IN /\ loaded[k] /\ ~count_by_rounds
           /\ d # <<>>
           /\ FullyAnswered(d[1])
           /\ Cardinality(AnsweredRounds(d[1])) = 2
           /\ Cardinality(TrueRounds(d[1])) = 1

\* C14 (SpecStats): when the stored sequence holds a record of id Q with a
\* non-empty answer, appending any further record of Q, of any shape, and
\* recomputing leaves every statistic unchanged in both modes, and therefore
\* Q's contribution to each of them.
C14_RemergeIdempotent ==
    \A k \in K : \A id \in Ids : \A body \in ScoredBodies :
        LET rs  == file0[k].results
            new == StoredRecs(k, <<(<<id, body>>)>>)
        IN HasAuthoritative(rs, id, combos[k].m) =>
              /\ CalculateOutputStatistics(rs \o new, enabled_models, count_by_rounds)
                 = CalculateOutputStatistics(rs, enabled_models, count_by_rounds)
              /\ Contribution(rs \o new, id, count_by_rounds)
                 = Contribution(rs, id, count_by_rounds)

\* a loaded artifact that holds a record of an id judged incorrect, to which a
\* record judged correct can be appended
C14_Witness ==
    \E k \in K : \E id \in Ids :
        /\ loaded[k]
        /\ HasAuthoritative(file0[k].results, id, combos[k].m)
        /\ NonEmptyOf(file0[k].results, id, combos[k].m)[1].match_gt
           = SingleGt(FALSE)
        /\ Len(file0[k].results) = MaxStored

\* C15 (SpecStats): when the stored sequence consists of two records of one id
\* of which exactly one has a non-empty answer, the scoring set, and the set
\* the resume load keeps, consist of the non-empty record alone, whether it is
\* stored first or second.
C15_DedupOrderIndependent ==
    \A k \in K :
        LET rs == file0[k].results
            m  == combos[k].m
            ne == NonEmptyOf(rs, rs[1].question_id, m)
        IN (Len(rs) = 2 /\ rs[1].question_id = rs[2].question_id /\ Len(ne) = 1) =>
              /\ DeduplicateResults(rs, enabled_models) = ne
              /\ ResumeDedup(rs, m).cleaned_items = ne

\* a loaded artifact whose first record of an id is empty and whose second
\* record of the same id is not
C15_Witness ==
    \E k \in K :
        LET rs == file0[k].results
        IN /\ loaded[k]
           /\ Len(rs) = 2
           /\ rs[1].question_id = rs[2].question_id
           /\ NonEmptyOf(rs, rs[1].question_id, combos[k].m) = <<rs[2]>>

\* the same with the non-empty record stored first
C15_WitnessFirst ==
    \E k \in K :
        LET rs == file0[k].results
        IN /\ loaded[k]
           /\ Len(rs) = 2
           /\ rs[1].question_id = rs[2].question_id
           /\ rs[1] # rs[2]
           /\ NonEmptyOf(rs, rs[1].question_id, combos[k].m) = <<rs[1]>>

\* C11 (Spec): once the interrupt has been raised in the main thread, no inner
\* task that has not started begins: a task queued in a combination's pool
\* stays queued in every later step.
C11_NoAdmissionAfterInterrupt ==
    [][(mpc = "joining" \/ interrupted) =>
          \A k \in K : \A i \in 1..Len(tasks[k]) :
              tasks[k][i].st = "queued" => tasks'[k][i].st = "queued"]_vars

(* ------------------------------------------------------------------ *)
(* Task failures                                                        *)
(* ------------------------------------------------------------------ *)
Collected(k) == {i \in 1..Len(tasks[k]) : tasks[k][i].st = "collected"}

\* the records of the combination, stored or buffered
RecordsOf(k) == file[k].results \o result_buffers[k]

ZeroContribution ==
    [total |-> Pair0,
     by_model |-> [m \in Range(enabled_models) |-> Pair0],
     by_profile |-> [p \in Range(profiles) |-> Pair0],
     by_category |-> [c \in Scenarios |-> Pair0]]

\* the judge call of some round of the task raised after its retries
JudgeFailed(t) ==
    t.input = "valid" /\ \E j \in 1..Len(t.outs) : t.outs[j] = "judge_fail"

\* the task failed: input error, missing media, or a model or judge call that
\* raised after its retries
TaskFailed(t) ==
    \/ t.input \in {"no_options", "no_media"}
    \/ t.input = "valid" /\ \E j \in 1..Len(t.outs) : RoundFailed(t.outs[j])

\* C16 (SpecTasks): a processed task one of whose judge calls raised after its
\* retries has an entry in the failure list, and its id contributes no unit,
\* correct or incorrect, to the total or to any per-model, per-persona or
\* per-tag breakdown, in whole-item and in per-round mode.
C16_JudgeExhaustion ==
    \A k \in K : \A i \in Collected(k) :
        JudgeFailed(tasks[k][i]) =>
            /\ <<k, tasks[k][i].id>> \in failures
            /\ \A by_rounds \in BOOLEAN :
                   Contribution(RecordsOf(k), tasks[k][i].id, by_rounds) = ZeroContribution

\* the statistics half of C16 alone
C16_NoUnit ==
    \A k \in K : \A i \in Collected(k) :
        JudgeFailed(tasks[k][i]) =>
            \A by_rounds \in BOOLEAN :
                Contribution(RecordsOf(k), tasks[k][i].id, by_rounds) = ZeroContribution

\* C17 (SpecTasks): every processed task that failed, by an input error, a
\* missing media file, a model call or a judge call that raised after its
\* retries, has an entry with its id in the failure list of the run.
C17_FailureListed ==
    \A k \in K : \A i \in Collected(k) :
        TaskFailed(tasks[k][i]) => <<k, tasks[k][i].id>> \in failures

\* the half of C17 that holds: input errors and missing media are listed
C17_InputFailureListed ==
    \A k \in K : \A i \in Collected(k) :
        tasks[k][i].input \in {"no_options", "no_media"}
            => <<k, tasks[k][i].id>> \in failures

\* C18 (SpecIsolation): a task whose executor call raised, returned nothing or
\* returned an error result gets an entry in the failure list and no record,
\* written or buffered; when the run has ended every dispatched task of every
\* combination has been processed and every task that did not fail so has its
\* record in the artifact; and every run ends.
C18_Isolated ==
    \A k \in K :
        /\ \A i \in Collected(k) :
              tasks[k][i].res \in FailedResults =>
                  /\ <<k, tasks[k][i].id>> \in failures
                  /\ tasks[k][i].id \notin Range(emitted[k])
                  /\ StoredOf(RecordsOf(k), tasks[k][i].id) = <<>>
        /\ mpc = "exited" =>
              /\ TaskIds(k) = Range(items)
              /\ Collected(k) = 1..Len(tasks[k])
              /\ \A i \in Collected(k) :
                    tasks[k][i].res \notin FailedResults =>
                        Len(StoredOf(file[k].results, tasks[k][i].id)) = 1

C18_FailureIsolation == []C18_Isolated /\ <>(mpc = "exited")

\* a finished run in which, in one combination, a task failed and the other
\* task's record is in the artifact
C18_Witness ==
    /\ mpc = "exited"
    /\ \E k \in K : \E i, j \in Collected(k) :
          /\ tasks[k][i].res \in FailedResults
          /\ tasks[k][j].res \notin FailedResults
          /\ StoredOf(file[k].results, tasks[k][j].id) # <<>>

(* ------------------------------------------------------------------ *)
(* The retry loop and the media of a conversation                       *)
(* ------------------------------------------------------------------ *)
\* the evaluations that are inside a call of call_model_api
InCall ==
    {ev \in UNION {{tasks[k][i].ev : i \in 1..Len(tasks[k])} : k \in K} :
        ev.phase = "call"}

\* the attempts, waits and answer of a call at each of its steps
C19_CallState ==
    \A ev \in InCall :
        LET c == ev.call
        IN /\ c.made <= ev.max_retries
           /\ c.waits = [j \in 1..Len(c.waits) |-> ev.retry_delay * Pow2(j - 1)]
           /\ c.status = "trying" =>
                 /\ c.made < ev.max_retries
                 /\ Len(c.waits) = c.made
                 /\ c.answer = NoneV
           /\ c.status = "returned" =>
                 /\ Len(c.waits) = c.made - 1
                 /\ c.answer # NoneV
           /\ c.status = "raised" =>
                 /\ c.made = ev.max_retries
                 /\ Len(c.waits) = IF c.made = 0 THEN 0 ELSE c.made - 1
                 /\ c.answer = NoneV

\* the call ends where it returned or raised: no attempt follows
C19_NoAttemptAfterEnd ==
    [][\A k \in K : \A i \in 1..Len(tasks[k]) :
          tasks[k][i].ev.call.status \in {"returned", "raised"} =>
              tasks'[k][i].ev.call \in {tasks[k][i].ev.call, NoCall}]_vars

\* C19 (SpecCall): a call of call_model_api makes at most max_retries
\* attempts; after the failed attempt k, counted from 0 and not the last, it
\* has waited retry_delay * 2^k and nothing else; it returns at its first
\* successful attempt, with that attempt's answer, and makes no further
\* attempt; after max_retries failed attempts it has raised, with no wait
\* after the last attempt and without an answer.
C19_RetryLoop == []C19_CallState /\ C19_NoAttemptAfterEnd

\* a call that raised after three failed attempts with retry_delay 2, having
\* waited 2 and 4 seconds
C19_Witness ==
    \E ev \in InCall :
        /\ ev.max_retries = 3 /\ ev.retry_delay = 2
        /\ ev.call.status = "raised"
        /\ ev.call.made = 3
        /\ ev.call.waits = <<2, 4>>

\* a call that returned at its second attempt
C19_WitnessReturn ==
    \E ev \in InCall :
        ev.call.status = "returned" /\ ev.call.made = 2 /\ Len(ev.call.waits) = 1

MediaTurns(messages) ==
    {j \in 1..Len(messages) : messages[j].role = "user" /\ messages[j].media}

\* C20 (SpecCall): in the messages of every request of a multi-round item, at
\* most one user turn carries media; the turn of the current round carries
\* them exactly when the item has media and no earlier turn of the request
\* carries any, so that once a turn of the history carries the media no later
\* round attaches them again, whatever the number of rounds and whichever
\* rounds failed.
C20_MediaOnce ==
    \A ev \in InCall :
        LET sent == ev.sent
            last == Len(sent)
        IN /\ sent # <<>>
           /\ sent[last] = UserTurn(ev.round, sent[last].media)
           /\ Cardinality(MediaTurns(sent)) <= 1
           /\ sent[last].media <=> (ev.media /\ MediaTurns(SubSeq(sent, 1, last - 1)) = {})
           /\ ev.media => MediaTurns(sent) = {1}

\* the request of round 3 of an item with media whose first round failed in
\* the model call and whose second round was answered
C20_Witness ==
    \E ev \in InCall :
        /\ ev.media /\ ev.round = 3
        /\ ev.outs[1] = "model_fail" /\ ev.outs[2] \in {"T", "F", "judge_fail"}
        /\ Len(ev.sent) = 3
        /\ MediaTurns(ev.sent) = {1}

(* ------------------------------------------------------------------ *)
(* The order of the rounds of a conversation                            *)
(* ------------------------------------------------------------------ *)
\* the messages hold the compacted (user, assistant) pair of round q
PairCommitted(messages, q) ==
    \E j \in 1..(Len(messages) - 1) :
        /\ messages[j].role = "user" /\ messages[j].round = q
        /\ messages[j + 1] = AssistantTurn(q)

\* C21 (SpecCall): when the outgoing messages of round n+1 of a task have
\* been built, the conversation history they were built from holds the
\* compacted (user, assistant) pair of every earlier round of the task.
C21_RoundOrdering ==
    \A ev \in InCall :
        \A q \in 1..(ev.round - 1) :
            PairCommitted(SubSeq(ev.sent, 1, Len(ev.sent) - 1), q)

\* the part of C21 that holds: the pair of every earlier round whose model
\* call returned is in the history the round was built from, in round order,
\* and nothing else is
C21_ReturnedRoundsCommitted ==
    \A ev \in InCall :
        LET before == SubSeq(ev.sent, 1, Len(ev.sent) - 1)
            returned == {q \in 1..(ev.round - 1) : ev.outs[q] # "model_fail"}
        IN /\ \A q \in 1..(ev.round - 1) : q \in returned <=> PairCommitted(before, q)
           /\ Len(before) = 2 * Cardinality(returned)
           /\ \A j \in 1..(Len(before) - 1) : before[j].round <= before[j + 1].round

(* ------------------------------------------------------------------ *)
(* Whole-task correctness of a multi-round item                         *)
(* ------------------------------------------------------------------ *)
\* the collected tasks of multi-round items that came to a record
MultiRoundTasks(k) ==
    {i \in Collected(k) : /\ IsMultiRound(tasks[k][i].id)
                          /\ tasks[k][i].res \notin FailedResults}

EveryRoundJudgedCorrect(t) == \A j \in 1..Len(t.outs) : t.outs[j] = "T"

UsableOptions(opts) == opts \in {"shared", "per_round"}

\* round j of an item with these options has at least one option text
RoundHasOptions(opts, j) ==
    \/ opts = "shared"
    \/ opts \in {"per_round", "per_round_gap", "per_round_blank"}
          /\ RoundOptions(opts, j) = "shared"

\* the options of a choice-type item are missing, empty or invalid
OptionsLacking(t) ==
    IF IsMultiRound(t.id)
    THEN \E j \in 1..Len(Rounds) : ~RoundHasOptions(t.opts, j)
    ELSE t.opts \in {"none", "empty", "not_dict", "shared_blank"}

\* the task failed before any call and left no record
FailedBeforeCalls(k, i) ==
    /\ tasks[k][i].res = "error_result"
    /\ tasks[k][i].outs = <<>>
    /\ tasks[k][i].ev = NoEval
    /\ <<k, tasks[k][i].id>> \in failures
    /\ tasks[k][i].id \notin Range(emitted[k])
    /\ StoredOf(RecordsOf(k), tasks[k][i].id) = <<>>

\* C23 (SpecInput): every processed task over an item of a choice type, single
\* round or multi-round, whose options are missing, empty or invalid (for a
\* multi-round item: some round is left without option texts) failed before
\* any model or judge call, has an entry in the failure list and no record.
C23_OptionsValidated ==
    \A k \in K : \A i \in Collected(k) :
        (tasks[k][i].q_type \in CHOICE_QUESTION_TYPES /\ OptionsLacking(tasks[k][i]))
            => FailedBeforeCalls(k, i)

\* the part of C23 that holds: the single-round items of the three choice
\* types and the multi-round items of the multi-round choice type
C23_CheckedTypesValidated ==
    \A k \in K : \A i \in Collected(k) :
        LET t == tasks[k][i]
        IN (/\ OptionsLacking(t)
            /\ IF IsMultiRound(t.id) THEN t.q_type = "multi_round_choice"
               ELSE t.q_type \in CHOICE_QUESTION_TYPES)
               => FailedBeforeCalls(k, i)

(* ------------------------------------------------------------------ *)
(* The answer extraction chain                                          *)
(* ------------------------------------------------------------------ *)
\* the extractions in progress or over
Extractions ==
    {ex \in UNION {{tasks[k][i].ex : i \in 1..Len(tasks[k])} : k \in K} :
        ex.out # "none"}

\* the number of tokens of text[a..b] that satisfy Test
CountIn(text, a, b, Test(_)) == Cardinality({j \in a..b : Test(text[j])})

\* the marker at p closes at e: e is the first closing brace after p before
\* which as many braces were opened as closed
ClosesAt(text, p, e) ==
    /\ p \in 1..Len(text) /\ text[p] = "M"
    /\ e \in (p + 1)..Len(text) /\ text[e] = "}"
    /\ CountIn(text, p + 1, e - 1, HasOpenBrace)
          = CountIn(text, p + 1, e - 1, LAMBDA tok : tok = "}")
    /\ \A h \in (p + 1)..(e - 1) :
          text[h] = "}" =>
              CountIn(text, p + 1, h - 1, HasOpenBrace)
                 # CountIn(text, p + 1, h - 1, LAMBDA tok : tok = "}")

\* the markers that close and lie in no other marker that closes, each with
\* the index of its closing brace
TopLevelMarkers(text) ==
    LET closed == {pe \in (1..Len(text)) \X (1..Len(text)) :
                      ClosesAt(text, pe[1], pe[2])}
    IN {pe \in closed : ~\E qf \in closed : qf[1] < pe[1] /\ pe[1] < qf[2]}

ContentOf(text, pe) == StripText(SubSeq(text, pe[1] + 1, pe[2] - 1))

\* the content of the last top-level marker whose content is not blank
LastTopLevelContent(text) ==
    LET filled == {pe \in TopLevelMarkers(text) : ContentOf(text, pe) # <<>>}
    IN IF filled = {} THEN <<>>
       ELSE ContentOf(text, CHOOSE pe \in filled : \A qf \in filled : qf[1] <= pe[1])

NestedExample == <<"M", "A", "M", "B", "}", "C", "}">>

\* C24 (SpecExtract): for every response, the marker scan returns the content,
\* stripped, of the last marker that closes at its depth-matched brace, lies in
\* no other closed marker and has a non-blank content, and nothing when there
\* is no such marker; when it returns a content the extractor returns it with
\* structured = true; for \boxed{A\boxed{B}C} the extracted text is
\* A\boxed{B}C.
C24_MarkerScan ==
    /\ extract_boxed_content(NestedExample) = <<"A", "M", "B", "}", "C">>
    /\ \A ex \in Extractions :
          LET content == LastTopLevelContent(ex.original_response)
          IN /\ extract_boxed_content(ex.original_response) = content
             /\ (content # <<>> /\ ex.out \in {"returned", "judged"}) =>
                   /\ ex.extracted = content
                   /\ ex.is_from_box
                   /\ ex.stage = 1

\* the extractor returned A\boxed{B}C, structured, for a response that holds
\* \boxed{A\boxed{B}C} after an unclosed marker
C24_Witness ==
    \E ex \in Extractions :
        /\ ex.response = <<"M", " ">> \o NestedExample
        /\ ex.out = "returned"
        /\ ex.extracted = <<"A", "M", "B", "}", "C">>
        /\ ex.is_from_box

BareJsonExample == <<"{", "Q", "}">>

\* the stage at which the extraction returned is the first that produced a
\* result, and the result is that stage's
ReturnedByFirstProducing(ex) ==
    /\ \A m \in 1..(ex.stage - 1) :
          StageResult(m, ex.original_response).out = "nothing"
    /\ ex.out = "trying" =>
          ex.extracted = <<>> /\ ~ex.is_from_box
    /\ ex.out \in {"returned", "judged"} =>
          /\ StageResult(ex.stage, ex.original_response)
                = Produced(ex.extracted, ex.is_from_box)
          /\ ex.stage = 1 => ex.is_from_box /\ ex.extracted # <<>>
          /\ ex.stage = 2 =>
                /\ LastTopLevelContent(ex.original_response) = <<>>
                /\ ex.extracted # <<>>
                /\ ex.extracted # ex.original_response
          /\ ex.stage = 3 =>
                /\ ex.extracted = ex.original_response
                /\ ex.original_response # <<>>
                /\ ~ex.is_from_box
          /\ ex.stage = 4 =>
                /\ ex.original_response = <<>>
                /\ ex.extracted = <<>>
                /\ ~ex.is_from_box
    /\ ex.out = "raised" => ex.stage = 2

\* the stages are entered one after the other, from the first
C25_StageOrder ==
    [][\A k \in K : \A i \in 1..Len(tasks[k]) :
          LET ex == tasks[k][i].ex
              nx == tasks'[k][i].ex
          IN /\ nx.stage # ex.stage => nx.stage = IF ex.out = "trying" THEN ex.stage + 1
                                                  ELSE IF ex.out = "none" THEN 1 ELSE 0
             /\ nx.stage = ex.stage + 1 /\ ex.out = "trying" =>
                   StageResult(ex.stage, ex.original_response).out = "nothing"]_vars

C25_Stages ==
    \A ex \in Extractions :
        /\ ex.stage \in 1..4
        /\ ReturnedByFirstProducing(ex)
        /\ (ex.original_response = BareJsonExample /\ ex.out \in {"returned", "judged"}) =>
              /\ ex.extracted = <<"4", "2">>
              /\ ~ex.is_from_box
              /\ ex.stage = 2

\* C25 (SpecExtract): the extraction of a response runs the stages marker
\* scan, object scan, trailing window, full text in this order; a stage is
\* entered only after every earlier stage produced nothing, and the result
\* returned is the result of the first stage that produced one; the response
\* {"answer": "42"}, which holds no marker, gives 42 with structured = false.
C25_FallbackOrder == []C25_Stages /\ C25_StageOrder

\* the extraction of {"answer": "42"} returned 42, not structured, at the
\* second stage
C25_Witness ==
    \E ex \in Extractions :
        /\ ex.response = BareJsonExample
        /\ ex.out = "returned" /\ ex.stage = 2
        /\ ex.extracted = <<"4", "2">> /\ ~ex.is_from_box

\* a blank response came to the last stage, and the object scan of
\* {"answer": 42} raised
C25_WitnessFullText ==
    \E ex \in Extractions : ex.out = "returned" /\ ex.stage = 4
C25_WitnessRaised ==
    \E ex \in Extractions : ex.out = "raised" /\ ex.response = <<"{", "QN", "}">>

C26_WitnessSingle ==
    \E k \in K : \E i \in 1..Len(tasks[k]) :
        LET ex == tasks[k][i].ex
        IN /\ ~IsMultiRound(tasks[k][i].id)
           /\ ex.out = "judged" /\ ex.is_from_box
           /\ ex.response = <<"A", "M", "A", "}">>
           /\ ex.answer_for_judge = <<"A">>

\* the rounded-down quotient, by its defining inequalities
FloorQuotient(w, c) == CHOOSE q \in 0..w : q * c <= w /\ w < (q + 1) * c
AtLeastOne(n) == IF n < 1 THEN 1 ELSE n
FairPerCombo(w, c) == AtLeastOne(FloorQuotient(w, c))
FairConcurrent(w, c) ==
    IF FairPerCombo(w, c) * c <= w THEN c
    ELSE AtLeastOne(FloorQuotient(w, FairPerCombo(w, c)))
ActiveCombos == {k \in K : Active(k)}
RunningIn(k) == {ki \in Running : ki[1] = k}

\* C27 (Spec): for every budget W up to MaxWorkers and every number C of
\* combinations up to MaxCombos the scheduler computes per_combo =
\* max(1, floor(W / C)); when per_combo * C <= W the outer pool holds all C
\* combinations and every inner pool per_combo workers, otherwise the outer
\* pool holds max(1, floor(W / per_combo)) combinations; and in the run no
\* more combinations are active, and no more calls of an active combination
\* in progress, than these numbers.
C27_FairShare ==
    /\ \A w \in 1..MaxWorkers : \A c \in 1..MaxCombos :
          /\ PerComboWorkers(w, c) = FairPerCombo(w, c)
          /\ ComboWorkers(w, c) = FairConcurrent(w, c)
          /\ FairPerCombo(w, c) * c <= w => ActualPerCombo(w, c) = FairPerCombo(w, c)
    /\ Cardinality(ActiveCombos) <= FairConcurrent(workers, num_combos)
    /\ FairPerCombo(workers, num_combos) * num_combos <= workers
          => \A k \in K : Cardinality(RunningIn(k)) <= FairPerCombo(workers, num_combos)

\* a budget that does not divide: every combination active, each with its
\* whole share in progress, one worker of the budget left over
C27_Witness ==
    /\ workers > FairPerCombo(workers, num_combos) * num_combos
    /\ ActiveCombos = K
    /\ \A k \in K : Cardinality(RunningIn(k)) = FairPerCombo(workers, num_combos)

\* fewer workers than combinations: one combination runs, the next one waits
C27_WitnessLimited ==
    /\ workers < num_combos
    /\ Cardinality(ActiveCombos) = FairConcurrent(workers, num_combos)
    /\ \E k \in K : cpc[k] = "pending"
    /\ \E k \in K : Cardinality(RunningIn(k)) = 1

Warnings(log) == {j \in 1..Len(log) : log[j].level = "warning"}
\* the log holds a warning exactly when the effective total is below the
\* budget w, and the warning reports the difference
ReportsUnused(log, w, c) ==
    /\ Warnings(log) # {} <=> ComboWorkers(w, c) * ActualPerCombo(w, c) < w
    /\ \A j \in Warnings(log) :
          log[j].unused = w - ComboWorkers(w, c) * ActualPerCombo(w, c)
    /\ Cardinality(Warnings(log)) <= 1

\* C28 (Spec): once the budget is shared out, the run's log holds a warning
\* exactly when active combinations times inner workers is below W, the
\* warning reports W minus that total, and the pools are started all the
\* same; so it is for every W up to MaxWorkers and C up to MaxCombos; and for
\* W = 10 and C = 3 the result is 3 inner workers, 3 concurrent combinations,
\* an effective total of 9 and 1 worker reported unused.
C28_UnusedCapacity ==
    /\ mpc = "load" => capacity_log = <<>>
    /\ mpc # "load" => ReportsUnused(capacity_log, workers, num_combos)
    /\ \A w \in 1..MaxWorkers : \A c \in 1..MaxCombos :
          ReportsUnused(CapacityReport(w, c), w, c)
    /\ ActualPerCombo(10, 3) = 3
    /\ ComboWorkers(10, 3) = 3
    /\ ActualTotalWorkers(10, 3) = 9
    /\ CapacityReport(10, 3) = <<[level |-> "warning", unused |-> 1]>>

\* a budget of three over two combinations: one worker reported unused, and
\* the run went on to its end
C28_Witness ==
    /\ mpc = "exited"
    /\ capacity_log = <<[level |-> "warning", unused |-> 1]>>
    /\ \E k \in K : file[k].exists /\ file[k].results # <<>>

\* a budget that divides: no warning
C28_WitnessFull ==
    /\ mpc = "run"
    /\ workers = ActualTotalWorkers(workers, num_combos)
    /\ Warnings(capacity_log) = {}
    /\ capacity_log # <<>>

\* the records the artifact holds on disk: the lines that parse and the
\* lines that hold a record and do not
HeldRecords(f) == Len(f.results) + f.garbled

\* C29 (Spec): no step replaces an artifact that holds records which do not
\* parse by a document with fewer records than the artifact held; such a
\* rewrite is given up and the artifact stays as it is.
C29_SafetyGuard ==
    [][\A k \in K :
          (file[k].exists /\ file[k].garbled > 0 /\ file'[k] # file[k])
              => HeldRecords(file'[k]) >= HeldRecords(file[k])]_vars

\* the part of C29 that holds: a JSON artifact json.load cannot read is left
\* as it is by a flush and by the finalization that find it so, the error is
\* logged, the buffer kept, and no rewrite of it is begun
C29_UnreadableJsonKept ==
    [][\A k \in K :
          (output_format = "json" /\ file[k].exists /\ file[k].torn)
              => /\ \A t \in 0..num_combos :
                       (/\ AtFlush(t, k) /\ result_buffers[k] # <<>>
                        /\ IF t = 0 THEN midx' # midx ELSE cpc'[k] # cpc[k])
                           => /\ file'[k] = file[k]
                              /\ perr'[k]
                              /\ result_buffers'[k] = result_buffers[k]
                 /\ (AtStats(k) /\ midx' # midx) => (file'[k] = file[k] /\ perr'[k])
                 /\ \A t \in 0..num_combos :
                       (rw[t].stage = "idle" /\ rw'[t].stage # "idle") => rw'[t].k # k]_vars

\* an unreadable JSON artifact met by a flush with records to merge
C29_WitnessUnreadable ==
    /\ output_format = "json"
    /\ \E k \in K : /\ file[k].exists /\ file[k].torn
                    /\ result_buffers[k] # <<>>
                    /\ \E t \in 0..num_combos : AtFlush(t, k)

\* a JSONL artifact that holds a parsed record and a line that does not parse,
\* at its finalization
C29_WitnessGarbled ==
    /\ output_format = "jsonl"
    /\ \E k \in K : AtStats(k) /\ file[k].results # <<>> /\ file[k].garbled > 0

\* the run came to its end without an interrupt and without a write fault
UndisturbedRun == mpc = "exited" /\ ~interrupted /\ faults = MaxFaults
StoredCount(k) == Len(file0[k].results)
\* the artifact of k holds the records in base, then one record for each id
\* handed to persistence, in that order, under the statistics of these records
HoldsAfter(k, base) ==
    /\ file[k].exists /\ ~file[k].torn
    /\ Len(file[k].results) = Len(base) + Len(emitted[k])
    /\ SubSeq(file[k].results, 1, Len(base)) = base
    /\ \A j \in 1..Len(emitted[k]) :
          file[k].results[Len(base) + j].question_id = emitted[k][j]
    /\ file[k].statistics = Stats(file[k].results)

\* C30 (Spec): after finalization of an undisturbed run the artifact of every
\* combination holds, in the JSON encoding as in the JSONL encoding, the
\* records the run found stored, then the records of the tasks completed in
\* the run, in completion order, under the statistics header of these records.
C30_EncodingsEquivalent ==
    UndisturbedRun => \A k \in K : HoldsAfter(k, file0[k].results)

\* what holds of C30: the JSONL artifact is as stated; the JSON
\* artifact holds the stored records without the duplicates the load removed,
\* then the new records, and does not exist when there are none of either
C30_ActualContent ==
    UndisturbedRun =>
        \A k \in K :
            IF output_format = "jsonl"
            THEN HoldsAfter(k, file0[k].results)
            ELSE IF ~file0[k].exists /\ emitted[k] = <<>>
                 THEN ~file[k].exists
                 ELSE HoldsAfter(k, ResumeDedup(file0[k].results, combos[k].m).cleaned_items)

\* the two cases in which the encodings part
C30_WitnessDeduplicated ==
    /\ UndisturbedRun /\ output_format = "json"
    /\ \E k \in K : /\ emitted[k] # <<>>
                    /\ Len(file[k].results) < StoredCount(k) + Len(emitted[k])
C30_WitnessNoArtifact ==
    /\ UndisturbedRun /\ output_format = "json"
    /\ \E k \in K : ~file[k].exists /\ emitted[k] = <<>>
C30_WitnessJsonl ==
    /\ UndisturbedRun /\ output_format = "jsonl"
    /\ \E k \in K : StoredCount(k) > 0 /\ emitted[k] # <<>>

\* the single-round tasks whose extraction is over
Extracted(k) ==
    {i \in 1..Len(tasks[k]) :
        tasks[k][i].ex.out \in {"returned", "judged", "result"}}

\* C31 (SpecScenario): for the one single-round item, every combination: when
\* the model's response holds the marker with C, the extractor returns C and
\* the flag that it came from the marker; and when moreover the judge returned
\* correct, the statistics the finished run leaves in the artifact are
\* total_count 1, correct_count 1, accuracy 1.0.
C31_EndToEnd ==
    \A k \in K : \A i \in Extracted(k) :
        tasks[k][i].ex.response \in BoxedC
            => /\ tasks[k][i].ex.extracted = <<"C">>
               /\ tasks[k][i].ex.is_from_box
               /\ (mpc = "exited" /\ tasks[k][i].ex.is_correct)
                     => /\ file[k].exists
                        /\ Len(file[k].results) = 1
                        /\ file[k].results[1].answer = SingleAns("C")
                        /\ file[k].statistics.total = <<1, 1>>
                        /\ file[k].statistics.by_model[combos[k].m] = <<1, 1>>
                        /\ Accuracy(file[k].statistics.total) = [num |-> 1, den |-> 1]

\* the run is over; the response of the first combination held the marker
\* inside other text and the judge returned correct
C31_Witness ==
    /\ mpc = "exited"
    /\ Len(tasks[1]) = 1
    /\ tasks[1][1].ex.response = <<"A", " ", "M", "C", "}", " ", "B">>
    /\ tasks[1][1].ex.out = "result" /\ tasks[1][1].ex.is_correct
    /\ file[1].statistics.total = <<1, 1>>

\* the step hands a new record of combination k to persistence
HandsOver(k) == emitted'[k] # emitted[k]
\* the step ends a flush of the combination's own thread that replaced the
\* artifact, and the collect loop goes on
BatchFlushed(k) ==
    cpc[k] = "batchflush" /\ cpc'[k] = "collect" /\ rw[k].stage = "replaced"

\* in the JSON encoding a new record goes to the end of the buffer of its
\* combination and not to the artifact, and the flush is called in the same
\* step exactly when the buffer then holds batch_size records or more
BufferedFirst ==
    \A k \in K :
        (output_format = "json" /\ HandsOver(k))
            => /\ Len(result_buffers'[k]) = Len(result_buffers[k]) + 1
               /\ SubSeq(result_buffers'[k], 1, Len(result_buffers[k])) = result_buffers[k]
               /\ result_buffers'[k][Len(result_buffers'[k])].question_id
                      = emitted'[k][Len(emitted'[k])]
               /\ file' = file
               /\ (cpc'[k] = "batchflush") <=> (Len(result_buffers'[k]) >= batch_size)

\* C32 (SpecBatch), as stated: a new record is first appended to the buffer,
\* the merge is triggered as soon as the buffer holds batch_size records, and
\* after a result whose flush succeeded the buffer holds fewer than
\* batch_size records.
C32_BatchBuffering ==
    [][/\ BufferedFirst
       /\ \A k \in K :
             /\ (output_format = "json" /\ HandsOver(k) /\ cpc'[k] # "batchflush")
                   => Len(result_buffers'[k]) < batch_size
             /\ BatchFlushed(k) => Len(result_buffers'[k]) < batch_size]_vars

\* C32, amended: ... and after a result whose flush succeeded the buffer is
\* empty, which is fewer than batch_size records when batch_size is at
\* least 1.
C32_BufferEmptied ==
    [][/\ BufferedFirst
       /\ \A k \in K :
             /\ (output_format = "json" /\ HandsOver(k) /\ cpc'[k] # "batchflush")
                   => Len(result_buffers'[k]) < batch_size
             /\ BatchFlushed(k)
                   => /\ result_buffers'[k] = <<>>
                      /\ batch_size >= 1 => Len(result_buffers'[k]) < batch_size]_vars

\* a batch of MaxBatch records was merged into the artifact, the buffer is
\* empty and the collect loop goes on
C32_Witness ==
    /\ output_format = "json" /\ batch_size = MaxBatch
    /\ \E k \in K : /\ cpc[k] = "collect"
                    /\ result_buffers[k] = <<>>
                    /\ Len(emitted[k]) = MaxBatch
                    /\ Len(file[k].results) >= MaxBatch
                    /\ ~perr[k]

\* EVAL_BATCH_SIZE=0: a record was flushed at once; the empty buffer does not
\* hold fewer than batch_size records
C32_WitnessZero ==
    /\ output_format = "json" /\ batch_size = 0
    /\ \E k \in K : cpc[k] = "collect" /\ result_buffers[k] = <<>> /\ emitted[k] # <<>>
                    /\ file[k].exists

\* s is t[-n:] for some n
IsSuffix(s, t) == Len(s) <= Len(t) /\ s = SubSeq(t, Len(t) - Len(s) + 1, Len(t))

\* the evaluations of rounds that received a response
RoundsInProgress ==
    {ex \in UNION {{tasks[k][i].ex : i \in 1..Len(tasks[k])} : k \in K} :
        ex.out # "none"}
\* the turns the history holds for round r
TurnsOf(ex, r) == {j \in 1..Len(ex.history) : ex.history[j].round = r}
\* the history ends with the (user, assistant) pair of the round
EndsWithPair(ex) ==
    LET n == Len(ex.history)
    IN /\ n >= 2
       /\ ex.history[n - 1].role = "user" /\ ex.history[n].role = "assistant"
       /\ TurnsOf(ex, ex.round) = {n - 1, n}
AssistantContent(ex) == ex.history[Len(ex.history)].content

C33_Compacted ==
    \A ex \in RoundsInProgress :
        /\ ex.out \in {"trying", "returned", "raised"} => TurnsOf(ex, ex.round) = {}
        /\ ex.out = "judged" =>
              /\ EndsWithPair(ex)
              /\ AssistantContent(ex) =
                     (IF StripText(ex.extracted) # <<>> THEN ex.extracted ELSE <<>>)
              /\ ex.stage >= 3 =>
                    /\ IsSuffix(AssistantContent(ex), ex.original_response)
                    /\ estimate_text_tokens(AssistantContent(ex)) <= 100
                    /\ (AssistantContent(ex) = ex.original_response)
                           <=> (estimate_text_tokens(ex.original_response) <= 100)

\* the history changes only by the pair appended after the extraction returned
C33_PairAppended ==
    [][\A k \in K : \A i \in 1..Len(tasks[k]) :
          LET ex == tasks[k][i].ex
              nx == tasks'[k][i].ex
          IN nx.history # ex.history =>
                /\ ex.out = "returned" /\ nx.out = "judged"
                /\ Len(nx.history) = Len(ex.history) + 2
                /\ SubSeq(nx.history, 1, Len(ex.history)) = ex.history]_vars

C33_WitnessWhole ==
    \E ex \in RoundsInProgress :
        /\ ex.out = "judged" /\ ex.response = PlainText(MaxChars - 3)
        /\ AssistantContent(ex) = ex.response
\* the assistant turn is longer than any trailing window
C33_WitnessLong ==
    \E ex \in RoundsInProgress :
        /\ ex.out = "judged" /\ ex.is_from_box
        /\ estimate_text_tokens(AssistantContent(ex)) > 100
\* the round received a response and left no pair
C33_WitnessRaised ==
    \E ex \in RoundsInProgress :
        ex.out = "raised" /\ ex.round = 1 /\ ex.history = <<>>

\* the extractions that returned the trailing window of a response
Windows ==
    {ex \in RoundsInProgress : ex.out \in {"returned", "judged"} /\ ex.stage = 3}
\* the first slice of the window: text[-400:]
FirstSlice(ex) == LastChars(ex.original_response, 100 * 4)
\* the result is a suffix of the response within the bound of 100 tokens,
\* estimated as length div 4, plus 1
WithinBound(ex) ==
    /\ IsSuffix(ex.extracted, ex.original_response)
    /\ estimate_text_tokens(ex.extracted) = (TextChars(ex.extracted) \div 4) + 1
    /\ estimate_text_tokens(ex.extracted) <= 100
\* a step that shrinks a slice by about a tenth keeps more than four fifths
\* and less than the whole of it
AboutTenthLess(before, after) ==
    after < before /\ 5 * after > 4 * before

\* C34 (SpecWindow), as stated: the trailing window is a suffix of the
\* response of at most 100 estimated tokens, and when the first slice of 400
\* characters is over the bound the result is the slice shrunk by about 10%
\* of its length; one such step brings 400 characters within the bound.
C34_TrailingWindow ==
    \A ex \in Windows :
        /\ WithinBound(ex)
        /\ estimate_text_tokens(ex.original_response) <= 100
               => ex.extracted = ex.original_response
        /\ estimate_text_tokens(FirstSlice(ex)) > 100
               => AboutTenthLess(TextChars(FirstSlice(ex)), TextChars(ex.extracted))

\* what the code returns: the whole response below 400 characters, and its
\* last 40 characters from 400 characters on
C34_LastTenth ==
    \A ex \in Windows :
        /\ WithinBound(ex)
        /\ ex.extracted = IF TextChars(ex.original_response) < 400
                          THEN ex.original_response
                          ELSE LastChars(ex.original_response, 40)

\* the window of a response of MaxChars characters was returned
C34_Witness ==
    \E ex \in Windows :
        TextChars(ex.original_response) = MaxChars /\ TextChars(ex.extracted) = 40

\* thread t ends a flush of the buffer of combination k that replaced the
\* artifact
FlushDone(t, k) == rw[t].stage = "replaced" /\ rw[t].k = k /\ rw'[t].stage = "idle"
\* thread t begins a flush of the buffer of combination k
FlushStarts(t, k) ==
    rw[t].stage = "idle" /\ rw'[t].stage = "opened" /\ rw'[t].k = k
        /\ rw'[t].purpose = "flush"
IsPrefix(s, t) == Len(s) <= Len(t) /\ s = SubSeq(t, 1, Len(s))

\* C35 (Spec): a flush_json_buffer call merges the records the artifact held
\* when it was called, unchanged and in order, followed by the buffered
\* records in buffer order; when it has succeeded the artifact holds that
\* sequence and the buffer of the pair is empty; no stored record is updated
\* in place.
C35_AppendOnlyFlush ==
    [][\A k \in K : \A t \in DOMAIN rw :
          /\ FlushStarts(t, k) =>
                rw'[t].results = file[k].results \o result_buffers[k]
          /\ FlushDone(t, k) =>
                /\ file[k].results = rw[t].results
                /\ result_buffers'[k] = <<>>
          /\ (output_format = "json" /\ mpc # "load" /\ file'[k] # file[k]) =>
                IsPrefix(file[k].results, file'[k].results)]_vars

\* the same of the flushes before any interrupt, none of which overlaps
\* another rewrite of its artifact
C35_FlushNotOverlapped ==
    [][\A k \in K : \A t \in DOMAIN rw :
          ~interrupted' =>
             /\ FlushStarts(t, k) =>
                   rw'[t].results = file[k].results \o result_buffers[k]
             /\ FlushDone(t, k) =>
                   /\ file[k].results = rw[t].results
                   /\ result_buffers'[k] = <<>>
             /\ (output_format = "json" /\ mpc # "load" /\ file'[k] # file[k]) =>
                   /\ IsPrefix(file[k].results, file'[k].results)
                   /\ file'[k].results = file[k].results \o result_buffers[k]]_vars

\* a second flush before any interrupt added its records after those of the
\* first
C35_WitnessSecondFlush ==
    \E k \in K : /\ output_format = "json" /\ ~interrupted /\ batch_size = 1
                 /\ Len(emitted[k]) = 2 /\ Len(file[k].results) >= 2
                 /\ result_buffers[k] = <<>> /\ rw[k].stage = "idle"

\* the artifact of k can be read, and its header is the statistics of the
\* records it holds
Readable(f) == f.exists /\ ~f.torn
HeaderOf(f) == f.statistics
ConsistentHeader(f) ==
    HeaderOf(f) = CalculateOutputStatistics(f.results, enabled_models, count_by_rounds)
\* thread t replaces the artifact of k by the rewrite it has written
Replaces(t, k, purpose) ==
    /\ rw[t].stage = "written" /\ rw[t].k = k /\ rw[t].purpose = purpose
    /\ tmp[k].exists /\ rw'[t].stage # "written"

\* every flush and every final rewrite that replaces an artifact leaves a
\* header that agrees with the records
C36_Rewrites ==
    [][\A k \in K : \A t \in DOMAIN rw :
          (Replaces(t, k, "flush") \/ Replaces(t, k, "final")) =>
              (Readable(file'[k]) => ConsistentHeader(file'[k]))]_vars

\* at the end of the run, on either exit path, an artifact whose rewrites all
\* succeeded has a header that agrees with its records
C36_AtExit ==
    \A k \in K :
        (mpc = "exited" /\ Readable(file[k]) /\ file[k].garbled = 0 /\ ~perr[k])
            => ConsistentHeader(file[k])

\* C36 (Spec): after every successful JSON flush, and after finalization in
\* either encoding and on either exit path, the statistics header stored in
\* an artifact equals the statistics recomputed from the records stored in
\* that artifact.
C36_HeaderConsistency == []C36_AtExit /\ C36_Rewrites

\* an interrupted JSONL run ended with two records under the header of their
\* statistics
C36_Witness ==
    /\ mpc = "exited" /\ interrupted /\ output_format = "jsonl"
    /\ \E k \in K : /\ Readable(file[k]) /\ ~perr[k]
                    /\ Len(file[k].results) >= 2
                    /\ ConsistentHeader(file[k])
                    /\ HeaderOf(file[k]) # EmptyStats
\* a JSON flush in the middle of the run left the header of its records
C36_WitnessFlush ==
    /\ output_format = "json" /\ mpc = "run"
    /\ \E k \in K : /\ rw[k].stage = "replaced"
                    /\ file[k].results # <<>>
                    /\ ConsistentHeader(file[k])

\* the records of id add at least one unit to a denominator of the statistics
\* of the stored sequence
AddsToDenominator(rs, id) ==
    Denominators(CalculateOutputStatistics(rs, enabled_models, count_by_rounds))
        # Denominators(CalculateOutputStatistics(StoredWithout(rs, id),
                                                 enabled_models, count_by_rounds))

\* C37 (SpecResume): for every stored sequence of single-round and multi-round
\* records with any of their rounds empty, an id is in the completed set of
\* the resume load if and only if its records add at least one unit to a
\* denominator of the statistics, and no id whose records are counted is
\* dispatched again by a resumed combination.
C37_EmptinessAgrees ==
    \A k \in K : \A id \in Ids :
        LET rs == file0[k].results
        IN /\ (id \in ResumeDedup(rs, combos[k].m).completed_ids)
                  <=> AddsToDenominator(rs, id)
           /\ (Submitted(k) /\ loaded[k] /\ id \in TaskIds(k))
                  => ~AddsToDenominator(rs, id)

\* a multi-round record some of whose rounds have an answer and some not
PartlyEmpty(item) ==
    /\ item.answer.dict
    /\ \E x \in DictKeys(item.answer) : RoundAnswerBlank(item.answer.r[x])
    /\ \E x \in DictKeys(item.answer) : ~RoundAnswerBlank(item.answer.r[x])

\* the same for the stored sequences none of whose records is partly empty
C37_AgreesOnWholeRecords ==
    \A k \in K : \A id \in Ids :
        LET rs == file0[k].results
        IN (\A j \in 1..Len(rs) : ~PartlyEmpty(rs[j])) =>
              /\ (id \in ResumeDedup(rs, combos[k].m).completed_ids)
                     <=> AddsToDenominator(rs, id)
              /\ (Submitted(k) /\ loaded[k] /\ id \in TaskIds(k))
                     => ~AddsToDenominator(rs, id)

\* a record with one empty round was counted in the header and its id was
\* dispatched again
C37_WitnessRedispatched ==
    \E k \in K : \E id \in Ids :
        /\ Submitted(k) /\ loaded[k] /\ id \in TaskIds(k)
        /\ Len(file0[k].results) = 1 /\ PartlyEmpty(file0[k].results[1])
        /\ AddsToDenominator(file0[k].results, id)

\* every record of the sequence belongs to model m and persona p
AllOf(rs, m, p) ==
    \A j \in 1..Len(rs) : rs[j].model_name = m /\ rs[j].profile = p
\* the counts of a breakdown entry, <<0, 0>> when the entry is absent
EntryOf(breakdown, key) ==
    IF key \in DOMAIN breakdown THEN breakdown[key] ELSE <<0, 0>>
BreakdownsAgree(rs, m, p) ==
    LET st == CalculateOutputStatistics(rs, enabled_models, count_by_rounds)
    IN /\ st.total = EntryOf(st.by_model, m)
       /\ st.total = EntryOf(st.by_profile, p)

\* C38 (SpecStats): for every stored sequence whose records all belong to one
\* model and one persona, the overall total_count and correct_count equal the
\* counts of that model and of that persona, in both scoring modes.
C38_BreakdownsAgree ==
    \A k \in K :
        AllOf(file0[k].results, combos[k].m, combos[k].p)
            => BreakdownsAgree(file0[k].results, combos[k].m, combos[k].p)

\* the same in per-round mode, and in whole-item mode for the sequences
\* none of whose records is partly empty
C38_AgreeByRounds ==
    \A k \in K :
        LET rs == file0[k].results
        IN (/\ AllOf(rs, combos[k].m, combos[k].p)
            /\ count_by_rounds \/ \A j \in 1..Len(rs) : ~PartlyEmpty(rs[j]))
               => BreakdownsAgree(rs, combos[k].m, combos[k].p)

\* the records of the multi-round item in the buffers and the artifacts
StoredRoundRecords ==
    {r \in UNION {Range(result_buffers[k]) \cup Range(file[k].results) : k \in K} :
        r.answer.dict}
\* the texts of the model's own responses that the extractor returned for a
\* round of the run
OwnAnswers ==
    UNION {UNION {{JoinTokens(tasks[k][i].ex.rounds[j].extracted) :
                      j \in 1..Len(tasks[k][i].ex.rounds)} :
                  i \in 1..Len(tasks[k])} : k \in K}

\* C39 (SpecRounds): the answer stored for the model in a record, for every
\* round, is empty or a text the extractor took from the model's own
\* response; the reference answer of the round is never stored.
C39_NoReferenceLeak ==
    \A r \in StoredRoundRecords : \A x \in DictKeys(r.answer) :
        /\ r.answer.r[x] # ReferenceAnswer(x)
        /\ r.answer.r[x] = "" \/ r.answer.r[x] \in OwnAnswers

\* the same of the rounds whose response was not blank
C39_OwnAnswerUnlessBlank ==
    \A k \in K : \A i \in 1..Len(tasks[k]) :
        LET rounds == tasks[k][i].ex.rounds
        IN \A j \in 1..Len(rounds) :
              LET stored == ConvertedRoundAnswer(rounds[j])
              IN /\ rounds[j].error => stored = ""
                 /\ (~rounds[j].error /\ StripText(rounds[j].response) # <<>>)
                       => stored = JoinTokens(rounds[j].extracted) /\ stored # ""
                 /\ (~rounds[j].error /\ StripText(rounds[j].response) = <<>>)
                       => stored = ReferenceAnswer(rounds[j].round)

\* the artifact holds a record whose second round, answered by a blank
\* response, carries the reference answer
C39_WitnessLeak ==
    \E k \in K : \E r \in Range(file[k].results) :
        /\ r.answer.dict
        /\ r.answer.r[Rounds[1]] = "C"
        /\ r.answer.r[Rounds[2]] = ReferenceAnswer(Rounds[2])

\* the run came to its end without an interrupt and without a persistence
\* error
CleanRun == UndisturbedRun /\ \A k \in K : ~perr[k]
\* the records of the artifact of k once the load is over
LoadedRecords(k) ==
    IF output_format = "jsonl" THEN file0[k].results
    ELSE ResumeDedup(file0[k].results, combos[k].m).cleaned_items
\* the ids of the tasks of k whose executor returned a result without a
\* top-level error
Returned(k) == {id \in TaskIds(k) : <<k, id>> \notin failures}

\* C40 (Spec): when a run without persistence error and without interrupt
\* has ended, every dispatched task whose executor returned a result without
\* a top-level error has exactly one record in the artifact of its
\* combination, after the records the load left there, and every result
\* buffer is empty.
C40_NoLostResults ==
    CleanRun =>
        \A k \in K :
            /\ result_buffers[k] = <<>>
            /\ \A i \in 1..Len(tasks[k]) : tasks[k][i].st = "collected"
            /\ \A id \in Returned(k) :
                  /\ file[k].exists /\ ~file[k].torn
                  /\ Len(StoredOf(file[k].results, id))
                         = Len(StoredOf(LoadedRecords(k), id)) + 1
                  /\ Len(StoredOf(SubSeq(file[k].results, Len(LoadedRecords(k)) + 1,
                                         Len(file[k].results)), id)) = 1
            /\ \A id \in TaskIds(k) \ Returned(k) :
                  StoredOf(file[k].results, id) = StoredOf(LoadedRecords(k), id)

\* a resumed run ended cleanly with the record of the returned task after the
\* stored records
C40_Witness ==
    /\ CleanRun
    /\ \E k \in K :
          /\ LoadedRecords(k) # <<>> /\ Returned(k) # {}
          /\ Len(file[k].results) = Len(LoadedRecords(k)) + 1
\* a fresh run ended cleanly with the record of the one task that returned,
\* the other task of the combination having failed
C40_WitnessFailed ==
    /\ CleanRun
    /\ \E k \in K :
          /\ Returned(k) # {} /\ TaskIds(k) \ Returned(k) # {}
          /\ Len(file[k].results) = 1
====
